---- MODULE Spec2Model ----
(***************************************************************************)
(* Model of the user account service: registration, authentication and     *)
(* profile management use cases running inside a SQLAlchemy unit of work.  *)
(*                                                                         *)
(* Strings are tuples of one-character strings, so that len() and the      *)
(* character-class regular expressions of the source are computed.         *)
(* Each request runs as an asyncio task; one action is the code between    *)
(* two suspension points (awaits that reach the database).                 *)
(***************************************************************************)
EXTENDS Integers, Sequences, FiniteSets, TLC

\* ---------------------------------------------------------------- bounds
MaxIds == 2
MaxClock == 1
MaxCalls == 3
MaxNameLen == 11
MaxChain == 4

Procs == {1, 2}
Ids == 1..MaxIds

\* ------------------------------------------------------- program constants
ACCESS_TOKEN_EXPIRE_MINUTES == 60
USERNAME_MIN_LEN == 4
USERNAME_MAX_LEN == 10
PASSWORD_MIN_LEN == 8

\* --------------------------------------------------------------- strings
None == <<"<None>">>
NoId == 0

alice == <<"a", "l", "i", "c", "e">>
bobby == <<"b", "o", "b", "b", "y">>
carol == <<"c", "a", "r", "o", "l">>
bob == <<"b", "o", "b">>
a_at_x_io == <<"a", "@", "x", ".", "i", "o">>
b_at_x_io == <<"b", "@", "x", ".", "i", "o">>
ax == <<"a", "x">>
Passw0rd == <<"P", "a", "s", "s", "w", "0", "r", "d">>
Secret99 == <<"S", "e", "c", "r", "e", "t", "9", "9">>
weak == <<"w", "e", "a", "k">>

Usernames == {alice, bobby, bob}

\* Usernames of every length from the empty one to one past the longest allowed.
Name(n) == [i \in 1..n |-> "n"]
Names == {Name(n) : n \in 0..MaxNameLen}

\* Passwords that break each rule alone and in combination. A character outside
\* ASCII is written as its code point: "U+041F" is the Cyrillic capital letter Pe.
pw_Short7 == <<"P", "a", "s", "s", "w", "0", "r">>
pw_NoUpper == <<"p", "a", "s", "s", "w", "0", "r", "d">>
pw_NoLower == <<"P", "A", "S", "S", "W", "0", "R", "D">>
pw_NoDigit == <<"P", "a", "s", "s", "w", "o", "r", "d">>
pw_LowerOnly == <<"p", "a", "s", "s", "w", "o", "r", "d">>
pw_UpperOnly == <<"P", "A", "S", "S", "W", "O", "R", "D">>
pw_DigitsOnly == <<"1", "2", "3", "4", "5", "6", "7", "8">>
pw_CyrillicUpper == <<"U+041F", "a", "r", "o", "l", "1", "2", "3">>
PasswordValues ==
    {Passw0rd, weak, <<>>, pw_Short7, pw_NoUpper, pw_NoLower, pw_NoDigit,
     pw_LowerOnly, pw_UpperOnly, pw_DigitsOnly, pw_CyrillicUpper}
Emails == {a_at_x_io, b_at_x_io, ax}
Passwords == {Passw0rd, Secret99, weak}

UpperChars == {"A", "B", "C", "D", "E", "F", "G", "H", "I", "J", "K", "L", "M",
               "N", "O", "P", "Q", "R", "S", "T", "U", "V", "W", "X", "Y", "Z"}
LowerChars == {"a", "b", "c", "d", "e", "f", "g", "h", "i", "j", "k", "l", "m",
               "n", "o", "p", "q", "r", "s", "t", "u", "v", "w", "x", "y", "z"}
DigitChars == {"0", "1", "2", "3", "4", "5", "6", "7", "8", "9"}

Contains(s, chars) == \E i \in 1..Len(s) : s[i] \in chars

\* ------------------------------------------------------------ exceptions
Exc(k) == [kind |-> k, orig |-> "", detail |-> ""]
NoExc == Exc("none")
IntegrityError(orig, msg) == [kind |-> "IntegrityError", orig |-> orig, detail |-> msg]
InvalidPasswordFormat(msg) == [kind |-> "InvalidPasswordFormat", orig |-> "", detail |-> msg]

DomainExceptionKinds ==
    {"UsernameAlreadyExists", "EmailAlreadyExists", "InvalidUsernameFormat",
     "InvalidEmailFormat", "InvalidPasswordFormat", "InvalidCredentials",
     "UserDisabled", "UserNotFound", "EmailNotVerified", "InvalidPasswordException"}

\* ------------------------------------------------- domain: value objects
\* An identity whose longest username is one character short of the maximum.
UserIdentity_ExclusiveMax(username, email) ==
    IF Len(username) = 0
       \/ ~(USERNAME_MIN_LEN <= Len(username) /\ Len(username) < USERNAME_MAX_LEN)
    THEN Exc("InvalidUsernameFormat")
    ELSE IF ~Contains(email, {"@"})
    THEN Exc("InvalidEmailFormat")
    ELSE NoExc

\* UserIdentity.__post_init__: username first, then email
UserIdentity(username, email) ==
    IF Len(username) = 0
       \/ ~(USERNAME_MIN_LEN <= Len(username) /\ Len(username) <= USERNAME_MAX_LEN)
    THEN Exc("InvalidUsernameFormat")
    ELSE IF ~Contains(email, {"@"})
    THEN Exc("InvalidEmailFormat")
    ELSE NoExc

\* Password.__post_init__: length, uppercase, lowercase, digit
Password(value) ==
    IF Len(value) < PASSWORD_MIN_LEN THEN InvalidPasswordFormat("min_length")
    ELSE IF ~Contains(value, UpperChars) THEN InvalidPasswordFormat("uppercase")
    ELSE IF ~Contains(value, LowerChars) THEN InvalidPasswordFormat("lowercase")
    ELSE IF ~Contains(value, DigitChars) THEN InvalidPasswordFormat("digit")
    ELSE NoExc

\* ------------------------------------------------- shared/security.py
NoHash == [scheme |-> "", digest |-> <<>>]

get_password_hash(password) == [scheme |-> "argon2id", digest |-> password]

\* A verification that only asks whether a hash is stored.
verify_password_AnyStoredHash(plain_password, hashed_password) ==
    hashed_password.digest # <<>>

\* A verification that accepts every password.
verify_password_AcceptsAll(plain_password, hashed_password) ==
    hashed_password.scheme = "argon2id"

verify_password(plain_password, hashed_password) ==
    /\ hashed_password.scheme = "argon2id"
    /\ hashed_password.digest = plain_password

\* A token is what jwt.encode signs: the header's algorithm, the claims, and the
\* key the signature was made with.
NoToken ==
    [sub |-> <<>>, username |-> None, email |-> None, exp |-> 0, key |-> "", hdr |-> ""]

\* str(uuid): the textual form of an id
UuidStr(id) == <<"uuid", id>>

\* A token whose subject is the username instead of the id.
create_access_token_SubjectIsUsername(data, t) ==
    [sub |-> data.username, username |-> data.username, email |-> data.email,
     exp |-> t + ACCESS_TOKEN_EXPIRE_MINUTES, key |-> "SECRET_KEY", hdr |-> "HS256"]

create_access_token(data, t) ==
    [sub |-> data.sub, username |-> data.username, email |-> data.email,
     exp |-> t + ACCESS_TOKEN_EXPIRE_MINUTES, key |-> "SECRET_KEY", hdr |-> "HS256"]

\* A decode that does not look at the expiry claim.
decode_access_token_IgnoresExpiry(token, t) ==
    IF token.hdr = "HS256" /\ token.key = "SECRET_KEY" THEN token.sub ELSE None

\* jwt.decode raises PyJWTError for a token that does not parse (or names another
\* algorithm), whose signature does not verify, or whose exp is not in the
\* future; the function then returns None. Otherwise payload.get("sub"), which
\* is None when the claim is absent.
decode_access_token(token, t) ==
    IF token.hdr # "HS256" THEN None
    ELSE IF token.key # "SECRET_KEY" THEN None
    ELSE IF token.exp <= t THEN None
    ELSE token.sub

\* UUID(user_id_str): the id a well-formed text stands for, NoId for ValueError
UUID(user_id_str) ==
    IF Len(user_id_str) = 2 /\ user_id_str[1] = "uuid" THEN user_id_str[2] ELSE NoId

\* ------------------------------------------------- domain: User entity
NoUser ==
    [id |-> NoId, username |-> None, email |-> None, hashed_password |-> NoHash,
     disabled |-> FALSE, is_email_verified |-> FALSE, created_at |-> 0, updated_at |-> 0]

\* Result of an entity operation: the exception raised (or none) and the entity after it
Res(e, u) == [exc |-> e, user |-> u]

\* An entity that reports itself enabled whatever its disabled flag.
is_enabled_Always(u) == TRUE

is_enabled(u) == ~u.disabled

\* A factory whose accounts start with a confirmed email.
User_create_StartsVerified(username, email, id, t) ==
    LET e == UserIdentity(username, email) IN
    IF e # NoExc THEN Res(e, NoUser)
    ELSE Res(NoExc,
             [id |-> id, username |-> username, email |-> email,
              hashed_password |-> NoHash, disabled |-> FALSE,
              is_email_verified |-> TRUE, created_at |-> t, updated_at |-> t])

User_create(username, email, id, t) ==
    LET e == UserIdentity(username, email) IN
    IF e # NoExc THEN Res(e, NoUser)
    ELSE Res(NoExc,
             [id |-> id, username |-> username, email |-> email,
              hashed_password |-> NoHash, disabled |-> FALSE,
              is_email_verified |-> FALSE, created_at |-> t, updated_at |-> t])

\* A set_password that refuses an empty hash and otherwise only stamps the entity.
set_password_OnlyStamps(u, hashed_password, t) ==
    IF hashed_password.scheme = "" THEN Res(Exc("ValueError"), u)
    ELSE Res(NoExc, [u EXCEPT !.updated_at = t])

set_password(u, hashed_password, t) ==
    IF hashed_password.scheme = "" THEN Res(Exc("ValueError"), u)
    ELSE Res(NoExc, [u EXCEPT !.hashed_password = hashed_password, !.updated_at = t])

change_username(u, new_username, t) ==
    LET e == UserIdentity(new_username, u.email) IN
    IF e # NoExc THEN Res(e, u)
    ELSE Res(NoExc, [u EXCEPT !.username = new_username, !.updated_at = t])

\* A change of email that leaves the verification flag alone.
change_email_KeepsVerified(u, new_email, t) ==
    LET e == UserIdentity(u.username, new_email) IN
    IF e # NoExc THEN Res(e, u)
    ELSE Res(NoExc, [u EXCEPT !.email = new_email, !.updated_at = t])

\* A change of email that resets the flag only when the email is another one.
change_email_ResetsOnlyOnChange(u, new_email, t) ==
    LET e == UserIdentity(u.username, new_email) IN
    IF e # NoExc THEN Res(e, u)
    ELSE Res(NoExc, [u EXCEPT !.email = new_email,
                              !.is_email_verified = IF new_email = u.email
                                                    THEN u.is_email_verified ELSE FALSE,
                              !.updated_at = t])

change_email(u, new_email, t) ==
    LET e == UserIdentity(u.username, new_email) IN
    IF e # NoExc THEN Res(e, u)
    ELSE Res(NoExc, [u EXCEPT !.email = new_email, !.is_email_verified = FALSE,
                              !.updated_at = t])

\* An enable that leaves an entity that is already enabled untouched.
enable_OnlyWhenDisabled(u, t) ==
    IF u.disabled THEN [u EXCEPT !.disabled = FALSE, !.updated_at = t] ELSE u

enable(u, t) == [u EXCEPT !.disabled = FALSE, !.updated_at = t]

\* A disable that flips the flag instead of setting it.
disable_Flips(u, t) == [u EXCEPT !.disabled = ~u.disabled, !.updated_at = t]

disable(u, t) == [u EXCEPT !.disabled = TRUE, !.updated_at = t]

mark_email_as_verified(u, t) == [u EXCEPT !.is_email_verified = TRUE, !.updated_at = t]

\* ------------------------------------------------- infrastructure: mapper
\* A mapper that does not carry the disabled flag over to the entity.
to_domain_DropsDisabled(orm) ==
    LET e == UserIdentity(orm.username, orm.email) IN
    IF e # NoExc THEN Res(e, NoUser)
    ELSE Res(NoExc,
             [id |-> orm.id, username |-> orm.username, email |-> orm.email,
              hashed_password |-> orm.hashed_password, disabled |-> FALSE,
              is_email_verified |-> orm.is_email_verified,
              created_at |-> orm.created_at, updated_at |-> orm.updated_at])

\* to_domain builds a UserIdentity from the row, which validates it: a row whose
\* username or email breaks the rule raises instead of giving an entity.
to_domain(orm) ==
    LET e == UserIdentity(orm.username, orm.email) IN
    IF e # NoExc THEN Res(e, NoUser)
    ELSE Res(NoExc,
             [id |-> orm.id, username |-> orm.username, email |-> orm.email,
              hashed_password |-> orm.hashed_password, disabled |-> orm.disabled,
              is_email_verified |-> orm.is_email_verified,
              created_at |-> orm.created_at, updated_at |-> orm.updated_at])

to_orm(u) ==
    [id |-> u.id, username |-> u.username, email |-> u.email,
     hashed_password |-> u.hashed_password, disabled |-> u.disabled,
     is_email_verified |-> u.is_email_verified,
     created_at |-> u.created_at, updated_at |-> u.updated_at]

\* A mapper that takes the entity's updated_at for both timestamp columns.
update_orm_from_domain_StampsCreatedAt(orm, u) ==
    [orm EXCEPT !.username = u.username, !.email = u.email,
                !.hashed_password = u.hashed_password, !.disabled = u.disabled,
                !.is_email_verified = u.is_email_verified,
                !.created_at = u.updated_at, !.updated_at = u.updated_at]

update_orm_from_domain(orm, u) ==
    [orm EXCEPT !.username = u.username, !.email = u.email,
                !.hashed_password = u.hashed_password, !.disabled = u.disabled,
                !.is_email_verified = u.is_email_verified,
                !.updated_at = u.updated_at]

\* ------------------------------------------------- the program's state
VARIABLES
    store,        \* committed rows of table users
    nextId,       \* number of ids generated so far (uuid4 never repeats)
    now,          \* the clock
    pc,           \* per request task: the suspension point it is at
    req,          \* per request task: the operation and its DTO
    user,         \* per request task: the domain entity held by the use case
    has_changes,  \* per request task: UpdateUserUseCase._run's local flag
    pending,      \* per session: objects added and not yet flushed
    imap,         \* per session: objects it changed, the row as read and the attributes now
    raised,       \* per request task: the error raised inside the use case's _run
    exc,          \* per request task: the error leaving BaseUseCase.execute
    ret,          \* per request task: the value returned by BaseUseCase.execute
    outExc,       \* per request task: the error leaving the unit of work scope
    trace,        \* per request task: store and session calls made, in order
    session,      \* per unit of work: "none", "open", "closed"
    tx            \* per unit of work: "none", "open", "failed", "committed", "rolledback"

vars == <<store, nextId, now, pc, req, user, has_changes, pending, imap, raised, exc,
          ret, outExc, trace, session, tx>>

Rq(op, id, username, email, password, new_password) ==
    [op |-> op, id |-> id, username |-> username, email |-> email,
     password |-> password, new_password |-> new_password, token |-> NoToken]

\* A request that presents a bearer token instead of naming an id
TokenRq(op, token, username, email, password, new_password) ==
    [Rq(op, NoId, username, email, password, new_password) EXCEPT !.token = token]

NoReq == Rq("none", NoId, None, None, None, None)

NoRet == [user |-> NoUser, access_token |-> NoToken, token_type |-> ""]

BodyPcs == {"reg_username", "reg_email", "auth", "get", "disable", "enable",
            "upd_username", "upd_email", "current_user", "update_user"}

Count(tr, call) == Cardinality({i \in 1..Len(tr) : tr[i] = call})

\* ------------------------------------------------- storage layer (table users)
\* UserORM: primary key id, unique index on username, unique index on email.
\* A write is [kind, row, orig]: an INSERT of row, or an UPDATE of the row with
\* orig's id setting the columns in which row differs from orig.

\* The table as it would be without the unique index on username.
UniqueViolations_NoUsernameIndex(S, w) ==
    {c \in {"ix_users_email"} :
        /\ w.kind = "insert" \/ w.row.email # w.orig.email
        /\ \E r \in S : r.id # w.row.id /\ r.email = w.row.email}

\* The table as it would be without the unique index on email.
UniqueViolations_NoEmailIndex(S, w) ==
    {c \in {"ix_users_username"} :
        /\ w.kind = "insert" \/ w.row.username # w.orig.username
        /\ \E r \in S : r.id # w.row.id /\ r.username = w.row.username}

UniqueViolations(S, w) ==
    LET others == {r \in S : r.id # w.row.id}
        setsUsername == w.kind = "insert" \/ w.row.username # w.orig.username
        setsEmail == w.kind = "insert" \/ w.row.email # w.orig.email
    IN  {c \in {"ix_users_username"} :
            setsUsername /\ \E r \in others : r.username = w.row.username}
        \cup
        {c \in {"ix_users_email"} :
            setsEmail /\ \E r \in others : r.email = w.row.email}

ChangedColumns(t, orig, cur) ==
    [id |-> t.id,
     username |-> IF cur.username # orig.username THEN cur.username ELSE t.username,
     email |-> IF cur.email # orig.email THEN cur.email ELSE t.email,
     hashed_password |-> IF cur.hashed_password # orig.hashed_password
                         THEN cur.hashed_password ELSE t.hashed_password,
     disabled |-> IF cur.disabled # orig.disabled THEN cur.disabled ELSE t.disabled,
     is_email_verified |-> IF cur.is_email_verified # orig.is_email_verified
                           THEN cur.is_email_verified ELSE t.is_email_verified,
     created_at |-> IF cur.created_at # orig.created_at THEN cur.created_at
                    ELSE t.created_at,
     updated_at |-> IF cur.updated_at # orig.updated_at THEN cur.updated_at
                    ELSE t.updated_at]

ApplyWrite(S, w) ==
    IF w.kind = "insert" THEN S \cup {w.row}
    ELSE {IF t.id = w.orig.id THEN ChangedColumns(t, w.orig, w.row) ELSE t : t \in S}

\* The statements of one flush run in order; the first rejected one aborts it.
RECURSIVE Flush(_, _)
Flush(S, ws) ==
    IF ws = <<>> THEN [ok |-> TRUE, store |-> S, constraints |-> {}]
    ELSE LET v == UniqueViolations(S, Head(ws)) IN
         IF v # {} THEN [ok |-> FALSE, store |-> S, constraints |-> v]
         ELSE Flush(ApplyWrite(S, Head(ws)), Tail(ws))

RECURSIVE ById(_)
ById(E) ==
    IF E = {} THEN <<>>
    ELSE LET m == CHOOSE e \in E : \A f \in E : e.orig.id <= f.orig.id
         IN  <<m>> \o ById(E \ {m})

\* The unit of work of a session: UPDATEs of the dirty loaded objects, then INSERTs
\* of the added ones.
SessionWrites(p) ==
    LET dirty == {e \in imap[p] : e.cur # e.orig}
        ups == ById(dirty)
    IN  [i \in 1..Len(ups) |-> [kind |-> "update", row |-> ups[i].cur, orig |-> ups[i].orig]]
        \o
        [i \in 1..Len(pending[p]) |->
            [kind |-> "insert", row |-> pending[p][i], orig |-> pending[p][i]]]

\* str(e.orig) of a unique violation names the constraint that fired
UniqueViolationMessage(c) == c

\* ------------------------------------------------- UserRepository
\* The session references a clean object weakly: the object a lookup loaded is
\* gone when the repository has returned the entity made from it, and the next
\* session.get reads the row again. The session keeps the objects it has to
\* write: those update_user modified (imap) and those added (pending).
SelectById(id) == {r \in store : r.id = id}

SelectByUsername(username) == {r \in store : r.username = username}

SelectByEmail(email) == {r \in store : r.email = email}

\* session.get of a row not held by the session: the row as committed now
Loaded(im, rows) ==
    im \cup {[orig |-> r, cur |-> r] :
                r \in {r \in rows : ~\E e \in im : e.orig.id = r.id}}

\* The objects of a session: those it changed and those added to it. An added
\* object has no committed row; until the commit it is kept in pending.
Objects(im, pend) == im \cup {[orig |-> pend[i], cur |-> pend[i]] : i \in 1..Len(pend)}

\* What a SELECT of the session sees. The session flushes before it runs a
\* statement (autoflush is on by default), so the statement reads the committed
\* rows with the session's own changes applied, and the rows the session added;
\* row is the row as the statement sees it, obj the object the session hands out.
Seen(objs) ==
    {[row |-> ChangedColumns(m[1], m[2].orig, m[2].cur), obj |-> m[2].cur] :
        m \in {m \in store \X objs : m[2].orig.id = m[1].id}}
    \cup {[row |-> r, obj |-> r] : r \in {r \in store : ~\E e \in objs : e.orig.id = r.id}}
    \cup {[row |-> e.cur, obj |-> e.cur] : e \in {e \in objs : SelectById(e.orig.id) = {}}}

\* `UserMapper.to_domain(orm_user) if orm_user else None`: the lookup raises what
\* to_domain raises, else it returns the matching entities: none (None) or one.
Mapped(rows) ==
    LET rs == {to_domain(r) : r \in rows}
        errors == {x.exc : x \in {x \in rs : x.exc # NoExc}}
    IN  [exc |-> IF errors = {} THEN NoExc ELSE CHOOSE e \in errors : TRUE,
         found |-> IF errors = {} THEN {x.user : x \in rs} ELSE {}]

\* A lookup by id that never finds an account.
get_by_id_FindsNothing(im, id) == Mapped({})

\* session.get answers from the session's objects when the object is there.
get_by_id(im, id) ==
    LET hit == {e \in im : e.orig.id = id} IN
    IF hit # {} THEN Mapped({e.cur : e \in hit})
    ELSE Mapped(SelectById(id))

\* A username lookup that never finds an account.
get_by_username_FindsNothing(im, username) == Mapped({})

\* A username lookup that reads the committed rows only, without the flush.
get_by_username_CommittedOnly(im, username) ==
    Mapped({e.cur : e \in {e \in Loaded(im, SelectByUsername(username)) :
                             \E r \in SelectByUsername(username) : r.id = e.orig.id}})

get_by_username(objs, username) ==
    Mapped({v.obj : v \in {v \in Seen(objs) : v.row.username = username}})

\* An email lookup that never finds an account.
get_by_email_FindsNothing(im, email) == Mapped({})

get_by_email(objs, email) ==
    Mapped({v.obj : v \in {v \in Seen(objs) : v.row.email = email}})

\* create_user: session.add only, no statement reaches the database here.
create_user(pend, u) == Append(pend, to_orm(u))

\* update_user: session.get hands out the object the session holds, or reads the
\* row, and the entity's attributes are copied onto it, which marks the object as
\* modified, so the session keeps it until the flush; an unknown id is logged and
\* skipped.
update_user(im, u) ==
    {IF e.orig.id = u.id THEN [e EXCEPT !.cur = update_orm_from_domain(e.cur, u)] ELSE e :
        e \in Loaded(im, SelectById(u.id))}

\* update_user when the object with the entity's id was added in this session
update_added(pend, u) ==
    [i \in 1..Len(pend) |->
        IF pend[i].id = u.id THEN update_orm_from_domain(pend[i], u) ELSE pend[i]]

\* ------------------------------------------------- BaseUseCase.execute
\* An execute that catches a domain error and returns normally.
execute_Swallows(e) == IF e.kind \in DomainExceptionKinds THEN NoExc ELSE e

\* Logs and re-raises: a domain error and any other error leave it unchanged.
execute(e) == IF e.kind \in DomainExceptionKinds THEN e ELSE e

\* The use case's _run is over: its error or return value leaves execute and the
\* task reaches the end of the unit of work scope.
Finish(p, e, r, tr) ==
    /\ pc' = [pc EXCEPT ![p] = "exit"]
    /\ raised' = [raised EXCEPT ![p] = e]
    /\ exc' = [exc EXCEPT ![p] = execute(e)]
    /\ ret' = [ret EXCEPT ![p] = IF execute(e) = NoExc THEN r ELSE NoRet]
    /\ trace' = [trace EXCEPT ![p] = tr]

\* An error raised by a dependency around execute: e left the use case (NoExc if
\* it was not called or returned), d is what the dependency raises to the scope.
FinishDep(p, e, d, tr) ==
    /\ pc' = [pc EXCEPT ![p] = "exit"]
    /\ raised' = [raised EXCEPT ![p] = e]
    /\ exc' = [exc EXCEPT ![p] = d]
    /\ ret' = [ret EXCEPT ![p] = NoRet]
    /\ trace' = [trace EXCEPT ![p] = tr]

\* ------------------------------------------------- request entry (get_uow)
\* An entity that no row of the table stands for.
DetachedUser(id) ==
    [id |-> id, username |-> alice, email |-> a_at_x_io,
     hashed_password |-> get_password_hash(Passw0rd), disabled |-> FALSE,
     is_email_verified |-> FALSE, created_at |-> 0, updated_at |-> 0]

\* The entity a caller hands to UpdateUserUseCase.execute with the DTO: the
\* account with that id as the caller read it, or an entity that is in no row.
HandedUser(id) ==
    LET got == Mapped(SelectById(id)) IN
    IF got.found # {} THEN CHOOSE u \in got.found : TRUE ELSE DetachedUser(id)

EntryPc(op) ==
    CASE op = "register" -> "reg_username"
      [] op = "login" -> "auth"
      [] op = "get" -> "get"
      [] op = "disable" -> "disable"
      [] op = "enable" -> "enable"
      [] op = "update" -> "upd_verify"
      [] op \in {"me", "me_verified", "api_update"} -> "current_user"

\* SqlAlchemyUnitOfWork.__aenter__: a fresh session for the request
Begin(p, r) ==
    /\ pc[p] = "idle"
    /\ r.op = "register" =>
         nextId + Cardinality({q \in Procs : pc[q] \in {"reg_username", "reg_email"}}) < MaxIds
    /\ pc' = [pc EXCEPT ![p] = EntryPc(r.op)]
    /\ req' = [req EXCEPT ![p] = r]
    /\ session' = [session EXCEPT ![p] = "open"]
    /\ tx' = [tx EXCEPT ![p] = "none"]
    /\ user' = [user EXCEPT ![p] = IF r.op = "update" THEN HandedUser(r.id) ELSE NoUser]
    /\ has_changes' = [has_changes EXCEPT ![p] = FALSE]
    /\ pending' = [pending EXCEPT ![p] = <<>>]
    /\ imap' = [imap EXCEPT ![p] = {}]
    /\ raised' = [raised EXCEPT ![p] = NoExc]
    /\ exc' = [exc EXCEPT ![p] = NoExc]
    /\ ret' = [ret EXCEPT ![p] = NoRet]
    /\ outExc' = [outExc EXCEPT ![p] = NoExc]
    /\ trace' = [trace EXCEPT ![p] = <<>>]
    /\ UNCHANGED <<store, nextId, now>>

\* The caller runs another use case on the same unit of work, inside the scope
\* it is in, as chain_use_cases_in_transaction does: the session and what it
\* holds stay. trace keeps one "next" for each use case that ran before.
Continue(p, r) ==
    /\ pc[p] = "exit"
    /\ exc[p] = NoExc
    /\ Count(trace[p], "next") < MaxChain
    /\ r.op = "register" => nextId < MaxIds
    /\ pc' = [pc EXCEPT ![p] = EntryPc(r.op)]
    /\ req' = [req EXCEPT ![p] = r]
    /\ user' = [user EXCEPT ![p] = NoUser]
    /\ has_changes' = [has_changes EXCEPT ![p] = FALSE]
    /\ raised' = [raised EXCEPT ![p] = NoExc]
    /\ ret' = [ret EXCEPT ![p] = NoRet]
    /\ trace' = [trace EXCEPT ![p] = [i \in 1..(Count(trace[p], "next") + 1) |-> "next"]]
    /\ UNCHANGED <<store, nextId, now, exc, pending, imap, outExc, session, tx>>

\* ------------------------------------------------- RegisterUserUseCase._run
\* except IntegrityError: translate a unique violation by the constraint it names
RegisterTranslate(e) ==
    IF e.kind # "IntegrityError" THEN e
    ELSE IF e.orig # "UniqueViolationError" THEN e
    ELSE IF e.detail = "ix_users_username" THEN Exc("UsernameAlreadyExists")
    ELSE IF e.detail = "ix_users_email" THEN Exc("EmailAlreadyExists")
    ELSE e

\* What awaiting create_user raises: session.add emits no statement, so nothing.
create_user_raises(pend, u) == NoExc

\* A Register that validates the password before it looks the username up.
RegisterCheckUsername_PasswordFirst(p) ==
    /\ pc[p] = "reg_username"
    /\ LET got == get_by_username(Objects(imap[p], pending[p]), req[p].username)
           tr == Append(trace[p], "get_by_username")
       IN  /\ tx' = [tx EXCEPT ![p] = "open"]
           /\ IF Password(req[p].password) # NoExc
              THEN Finish(p, Password(req[p].password), NoRet, trace[p])
              ELSE IF got.exc # NoExc
              THEN Finish(p, got.exc, NoRet, tr)
              ELSE IF got.found # {}
              THEN Finish(p, Exc("UsernameAlreadyExists"), NoRet, tr)
              ELSE /\ pc' = [pc EXCEPT ![p] = "reg_email"]
                   /\ trace' = [trace EXCEPT ![p] = tr]
                   /\ UNCHANGED <<raised, exc, ret>>
    /\ UNCHANGED <<store, nextId, now, req, user, has_changes, pending, imap, outExc, session>>

\* step 1a: pre-check of the username
RegisterCheckUsername(p) ==
    /\ pc[p] = "reg_username"
    /\ LET got == get_by_username(Objects(imap[p], pending[p]), req[p].username)
           tr == Append(trace[p], "get_by_username")
       IN  /\ tx' = [tx EXCEPT ![p] = "open"]
           /\ IF got.exc # NoExc
              THEN Finish(p, got.exc, NoRet, tr)
              ELSE IF got.found # {}
              THEN Finish(p, Exc("UsernameAlreadyExists"), NoRet, tr)
              ELSE /\ pc' = [pc EXCEPT ![p] = "reg_email"]
                   /\ trace' = [trace EXCEPT ![p] = tr]
                   /\ UNCHANGED <<raised, exc, ret>>
    /\ UNCHANGED <<store, nextId, now, req, user, has_changes, pending, imap, outExc, session>>

\* steps 1b to 5: pre-check of the email, entity, password, hash, create_user
RegisterCheckEmail(p) ==
    /\ pc[p] = "reg_email"
    /\ LET got == get_by_email(Objects(imap[p], pending[p]), req[p].email)
           tr == Append(trace[p], "get_by_email")
           created == User_create(req[p].username, req[p].email, nextId + 1, now)
           password == Password(req[p].password)
           hashed == get_password_hash(req[p].password)
           withpw == set_password(created.user, hashed, now)
           translated == RegisterTranslate(create_user_raises(pending[p], withpw.user))
       IN  IF got.exc # NoExc
           THEN /\ Finish(p, got.exc, NoRet, tr)
                /\ UNCHANGED <<nextId, user, pending>>
           ELSE IF got.found # {}
           THEN /\ Finish(p, Exc("EmailAlreadyExists"), NoRet, tr)
                /\ UNCHANGED <<nextId, user, pending>>
           ELSE IF created.exc # NoExc
           THEN /\ Finish(p, created.exc, NoRet, tr)
                /\ UNCHANGED <<nextId, user, pending>>
           ELSE IF password # NoExc
           THEN /\ Finish(p, password, NoRet, tr)
                /\ nextId' = nextId + 1
                /\ user' = [user EXCEPT ![p] = created.user]
                /\ UNCHANGED pending
           ELSE IF withpw.exc # NoExc
           THEN /\ Finish(p, withpw.exc, NoRet, tr)
                /\ nextId' = nextId + 1
                /\ user' = [user EXCEPT ![p] = created.user]
                /\ UNCHANGED pending
           ELSE /\ nextId' = nextId + 1
                /\ user' = [user EXCEPT ![p] = withpw.user]
                /\ pending' = [pending EXCEPT ![p] = create_user(pending[p], withpw.user)]
                /\ Finish(p, translated, [NoRet EXCEPT !.user = withpw.user],
                          Append(tr, "create_user"))
    /\ UNCHANGED <<store, now, req, has_changes, imap, outExc, session, tx>>

\* ------------------------------------------------- AuthenticateUserUseCase._run
\* An Authenticate that tests the account's status before the password.
AuthenticateRun_StatusFirst(p) ==
    /\ pc[p] = "auth"
    /\ LET got == get_by_username(Objects(imap[p], pending[p]), req[p].username)
           found == got.found
           tr == Append(trace[p], "get_by_username")
           u == IF found = {} THEN NoUser ELSE CHOOSE x \in found : TRUE
           token_data == [sub |-> UuidStr(u.id), username |-> u.username, email |-> u.email]
           token == create_access_token(token_data, now)
       IN  /\ user' = [user EXCEPT ![p] = u]
           /\ IF got.exc # NoExc
              THEN Finish(p, got.exc, NoRet, tr)
              ELSE IF found = {}
              THEN Finish(p, Exc("InvalidCredentials"), NoRet, tr)
              ELSE IF ~is_enabled(u)
              THEN Finish(p, Exc("UserDisabled"), NoRet, tr)
              ELSE IF ~verify_password(req[p].password, u.hashed_password)
              THEN Finish(p, Exc("InvalidCredentials"), NoRet, tr)
              ELSE Finish(p, NoExc,
                          [NoRet EXCEPT !.access_token = token, !.token_type = "bearer"], tr)
    /\ tx' = [tx EXCEPT ![p] = "open"]
    /\ UNCHANGED <<store, nextId, now, req, has_changes, pending, imap, outExc, session>>

AuthenticateRun(p) ==
    /\ pc[p] = "auth"
    /\ LET got == get_by_username(Objects(imap[p], pending[p]), req[p].username)
           found == got.found
           tr == Append(trace[p], "get_by_username")
           u == IF found = {} THEN NoUser ELSE CHOOSE x \in found : TRUE
           token_data == [sub |-> UuidStr(u.id), username |-> u.username, email |-> u.email]
           token == create_access_token(token_data, now)
       IN  /\ user' = [user EXCEPT ![p] = u]
           /\ IF got.exc # NoExc
              THEN Finish(p, got.exc, NoRet, tr)
              ELSE IF found = {} \/ ~verify_password(req[p].password, u.hashed_password)
              THEN Finish(p, Exc("InvalidCredentials"), NoRet, tr)
              ELSE IF ~is_enabled(u)
              THEN Finish(p, Exc("UserDisabled"), NoRet, tr)
              ELSE Finish(p, NoExc,
                          [NoRet EXCEPT !.access_token = token, !.token_type = "bearer"], tr)
    /\ tx' = [tx EXCEPT ![p] = "open"]
    /\ UNCHANGED <<store, nextId, now, req, has_changes, pending, imap, outExc, session>>

\* ------------------------------------------------- GetUserUseCase._run
GetUserRun(p) ==
    /\ pc[p] = "get"
    /\ LET got == get_by_id(Objects(imap[p], pending[p]), req[p].id)
           found == got.found
           tr == Append(trace[p], "get_by_id")
           u == IF found = {} THEN NoUser ELSE CHOOSE x \in found : TRUE
       IN  /\ user' = [user EXCEPT ![p] = u]
           /\ IF got.exc # NoExc THEN Finish(p, got.exc, NoRet, tr)
              ELSE IF found = {} THEN Finish(p, Exc("UserNotFound"), NoRet, tr)
              ELSE IF u.disabled THEN Finish(p, Exc("UserDisabled"), NoRet, tr)
              ELSE Finish(p, NoExc, [NoRet EXCEPT !.user = u], tr)
    /\ tx' = [tx EXCEPT ![p] = "open"]
    /\ UNCHANGED <<store, nextId, now, req, has_changes, pending, imap, outExc, session>>

\* ------------------------------------------------- UserRepository.update_user, awaited
\* The last await of the use cases that change an account: update_user with the
\* entity the use case holds, after which _run returns the entity. It is a round
\* trip of its own: the row is read as it is committed at this moment.
UpdateUserCall(p) ==
    /\ pc[p] = "update_user"
    /\ imap' = [imap EXCEPT ![p] = update_user(imap[p], user[p])]
    /\ pending' = [pending EXCEPT ![p] = update_added(pending[p], user[p])]
    /\ Finish(p, NoExc, [NoRet EXCEPT !.user = user[p]], Append(trace[p], "update_user"))
    /\ tx' = [tx EXCEPT ![p] = "open"]
    /\ UNCHANGED <<store, nextId, now, req, user, has_changes, outExc, session>>

\* ------------------------------------------------- Disable / EnableUserUseCase._run
\* up to the await of update_user; off tells which entity method the use case
\* applies: disable (TRUE) or enable
AccessRun(p, at, off) ==
    /\ pc[p] = at
    /\ LET got == get_by_id(Objects(imap[p], pending[p]), req[p].id)
           found == got.found
           tr == Append(trace[p], "get_by_id")
           x == IF found = {} THEN NoUser ELSE CHOOSE y \in found : TRUE
           u == IF off THEN disable(x, now) ELSE enable(x, now)
       IN  IF got.exc # NoExc \/ found = {}
           THEN /\ Finish(p, IF got.exc # NoExc THEN got.exc ELSE Exc("UserNotFound"),
                          NoRet, tr)
                /\ UNCHANGED user
           ELSE /\ user' = [user EXCEPT ![p] = u]
                /\ pc' = [pc EXCEPT ![p] = "update_user"]
                /\ trace' = [trace EXCEPT ![p] = tr]
                /\ UNCHANGED <<raised, exc, ret>>
    /\ tx' = [tx EXCEPT ![p] = "open"]
    /\ UNCHANGED <<store, nextId, now, req, has_changes, pending, imap, outExc, session>>

DisableUserRun(p) == AccessRun(p, "disable", TRUE)

EnableUserRun(p) == AccessRun(p, "enable", FALSE)

\* ------------------------------------------------- UpdateUserUseCase._run
\* steps 4 and 5 up to the await of update_user: the new password, then
\* update_user if anything changed; im is the session's identity map
UpdatePasswordStage(p, u, hc, im, tr) ==
    LET dto == req[p]
        password == Password(dto.new_password)
        withpw == set_password(u, get_password_hash(dto.new_password), now)
        fails == dto.new_password # None /\ (password # NoExc \/ withpw.exc # NoExc)
        u2 == IF dto.new_password # None THEN withpw.user ELSE u
        hc2 == hc \/ dto.new_password # None
    IN  /\ imap' = [imap EXCEPT ![p] = im]
        /\ IF fails
           THEN /\ Finish(p, IF password # NoExc THEN password ELSE withpw.exc, NoRet, tr)
                /\ user' = [user EXCEPT ![p] = u]
                /\ has_changes' = [has_changes EXCEPT ![p] = hc]
           ELSE IF hc2
           THEN /\ pc' = [pc EXCEPT ![p] = "update_user"]
                /\ user' = [user EXCEPT ![p] = u2]
                /\ has_changes' = [has_changes EXCEPT ![p] = hc2]
                /\ trace' = [trace EXCEPT ![p] = tr]
                /\ UNCHANGED <<raised, exc, ret>>
           ELSE /\ Finish(p, NoExc, [NoRet EXCEPT !.user = u2], tr)
                /\ user' = [user EXCEPT ![p] = u2]
                /\ has_changes' = [has_changes EXCEPT ![p] = hc2]

\* A step 3 that hands the account to update_user as soon as step 2 changed it.
UpdateEmailStage_SavesFirst(p, u, hc, im, tr) ==
    LET im2 == IF hc THEN update_user(im, u) ELSE im
        tr2 == IF hc THEN Append(tr, "update_user") ELSE tr
    IN  IF req[p].email # None /\ req[p].email # u.email
        THEN /\ pc' = [pc EXCEPT ![p] = "upd_email"]
             /\ user' = [user EXCEPT ![p] = u]
             /\ has_changes' = [has_changes EXCEPT ![p] = hc]
             /\ imap' = [imap EXCEPT ![p] = im2]
             /\ trace' = [trace EXCEPT ![p] = tr2]
             /\ UNCHANGED <<raised, exc, ret>>
        ELSE UpdatePasswordStage(p, u, hc, im2, tr2)

\* A step 3 that does not compare the given email with the current one.
UpdateEmailStage_NoDiffersTest(p, u, hc, im, tr) ==
    IF req[p].email # None
    THEN /\ pc' = [pc EXCEPT ![p] = "upd_email"]
         /\ user' = [user EXCEPT ![p] = u]
         /\ has_changes' = [has_changes EXCEPT ![p] = hc]
         /\ imap' = [imap EXCEPT ![p] = im]
         /\ trace' = [trace EXCEPT ![p] = tr]
         /\ UNCHANGED <<raised, exc, ret>>
    ELSE UpdatePasswordStage(p, u, hc, im, tr)

\* step 3 up to its lookup: an email that is given and differs needs get_by_email
UpdateEmailStage(p, u, hc, im, tr) ==
    IF req[p].email # None /\ req[p].email # u.email
    THEN /\ pc' = [pc EXCEPT ![p] = "upd_email"]
         /\ user' = [user EXCEPT ![p] = u]
         /\ has_changes' = [has_changes EXCEPT ![p] = hc]
         /\ imap' = [imap EXCEPT ![p] = im]
         /\ trace' = [trace EXCEPT ![p] = tr]
         /\ UNCHANGED <<raised, exc, ret>>
    ELSE UpdatePasswordStage(p, u, hc, im, tr)

\* step 2 up to its lookup: a username that is given and differs needs get_by_username
UpdateUsernameStage(p, u, hc, im, tr) ==
    IF req[p].username # None /\ req[p].username # u.username
    THEN /\ pc' = [pc EXCEPT ![p] = "upd_username"]
         /\ user' = [user EXCEPT ![p] = u]
         /\ has_changes' = [has_changes EXCEPT ![p] = hc]
         /\ imap' = [imap EXCEPT ![p] = im]
         /\ trace' = [trace EXCEPT ![p] = tr]
         /\ UNCHANGED <<raised, exc, ret>>
    ELSE UpdateEmailStage(p, u, hc, im, tr)

\* step 1: the use case is handed the entity and verifies the current password
\* against its hash, then goes on to the first lookup, if any, without an await.
UpdateVerify(p) ==
    /\ pc[p] = "upd_verify"
    /\ IF ~verify_password(req[p].password, user[p].hashed_password)
       THEN /\ Finish(p, Exc("InvalidPasswordException"), NoRet, trace[p])
            /\ UNCHANGED <<user, has_changes, imap>>
       ELSE UpdateUsernameStage(p, user[p], FALSE, imap[p], trace[p])
    /\ UNCHANGED <<store, nextId, now, req, pending, outExc, session, tx>>

\* step 2 from its lookup on
UpdateCheckUsername(p) ==
    /\ pc[p] = "upd_username"
    /\ LET got == get_by_username(Objects(imap[p], pending[p]), req[p].username)
           tr == Append(trace[p], "get_by_username")
           changed == change_username(user[p], req[p].username, now)
       IN  IF got.exc # NoExc \/ got.found # {}
           THEN /\ Finish(p, IF got.exc # NoExc THEN got.exc
                             ELSE Exc("UsernameAlreadyExists"), NoRet, tr)
                /\ UNCHANGED <<user, has_changes, imap>>
           ELSE IF changed.exc # NoExc
           THEN /\ Finish(p, changed.exc, NoRet, tr)
                /\ UNCHANGED <<user, has_changes, imap>>
           ELSE UpdateEmailStage(p, changed.user, TRUE, imap[p], tr)
    /\ tx' = [tx EXCEPT ![p] = "open"]
    /\ UNCHANGED <<store, nextId, now, req, pending, outExc, session>>

\* step 3 from its lookup on
UpdateCheckEmail(p) ==
    /\ pc[p] = "upd_email"
    /\ LET got == get_by_email(Objects(imap[p], pending[p]), req[p].email)
           tr == Append(trace[p], "get_by_email")
           changed == change_email(user[p], req[p].email, now)
       IN  IF got.exc # NoExc \/ got.found # {}
           THEN /\ Finish(p, IF got.exc # NoExc THEN got.exc
                             ELSE Exc("EmailAlreadyExists"), NoRet, tr)
                /\ UNCHANGED <<user, has_changes, imap>>
           ELSE IF changed.exc # NoExc
           THEN /\ Finish(p, changed.exc, NoRet, tr)
                /\ UNCHANGED <<user, has_changes, imap>>
           ELSE UpdatePasswordStage(p, changed.user, TRUE, imap[p], tr)
    /\ tx' = [tx EXCEPT ![p] = "open"]
    /\ UNCHANGED <<store, nextId, now, req, pending, outExc, session>>

\* ------------------------------------------------- get_current_user, get_verified_user
\* The dependency of the token-authenticated endpoints: decode the token, parse
\* its subject, GetUserUseCase.execute; get_verified_user adds the check of
\* is_email_verified; the update endpoint then waits for its use case to be
\* built by get_update_user_use_case before it enters UpdateUserUseCase._run.
CurrentUserRun(p) ==
    /\ pc[p] = "current_user"
    /\ LET user_id_str == decode_access_token(req[p].token, now)
           user_id == UUID(user_id_str)
           got == get_by_id(Objects(imap[p], pending[p]), user_id)
           found == got.found
           tr == Append(trace[p], "get_by_id")
           u == IF found = {} THEN NoUser ELSE CHOOSE y \in found : TRUE
       IN  IF user_id_str = None \/ user_id_str = <<>> \/ user_id = NoId
           THEN /\ FinishDep(p, NoExc, Exc("InvalidToken"), trace[p])
                /\ UNCHANGED <<user, has_changes, imap, tx>>
           ELSE /\ tx' = [tx EXCEPT ![p] = "open"]
                /\ IF got.exc # NoExc
                   THEN /\ FinishDep(p, got.exc, got.exc, tr)
                        /\ UNCHANGED <<user, has_changes, imap>>
                   ELSE IF found = {}
                   THEN /\ FinishDep(p, Exc("UserNotFound"), Exc("AuthUserNotFound"), tr)
                        /\ UNCHANGED <<user, has_changes, imap>>
                   ELSE IF u.disabled
                   THEN /\ FinishDep(p, Exc("UserDisabled"), Exc("UserDisabled"), tr)
                        /\ user' = [user EXCEPT ![p] = u]
                        /\ UNCHANGED <<has_changes, imap>>
                   ELSE IF req[p].op = "me"
                   THEN /\ Finish(p, NoExc, [NoRet EXCEPT !.user = u], tr)
                        /\ user' = [user EXCEPT ![p] = u]
                        /\ UNCHANGED <<has_changes, imap>>
                   ELSE IF ~u.is_email_verified
                   THEN /\ FinishDep(p, NoExc, Exc("EmailNotVerified"), tr)
                        /\ user' = [user EXCEPT ![p] = u]
                        /\ UNCHANGED <<has_changes, imap>>
                   ELSE IF req[p].op = "me_verified"
                   THEN /\ Finish(p, NoExc, [NoRet EXCEPT !.user = u], tr)
                        /\ user' = [user EXCEPT ![p] = u]
                        /\ UNCHANGED <<has_changes, imap>>
                   ELSE /\ pc' = [pc EXCEPT ![p] = "upd_verify"]
                        /\ user' = [user EXCEPT ![p] = u]
                        /\ trace' = [trace EXCEPT ![p] = tr]
                        /\ UNCHANGED <<raised, exc, ret, has_changes, imap>>
    /\ UNCHANGED <<store, nextId, now, req, pending, outExc, session>>

\* ------------------------------------------------- get_update_user_use_case
\* The request is cancelled while the endpoint waits for its use case, after
\* get_verified_user returned: no use case is running, the scope sees the error.
UseCaseDepCancelled(p) ==
    /\ pc[p] = "upd_verify"
    /\ req[p].op = "api_update"
    /\ FinishDep(p, NoExc, Exc("CancelledError"), trace[p])
    /\ UNCHANGED <<store, nextId, now, req, user, has_changes, pending, imap, outExc,
                   session, tx>>

\* ------------------------------------------------- errors from outside the use case
\* An await of the use case raises instead of returning: the request is cancelled
\* (CancelledError) or the database fails (OperationalError).
FaultKinds == {"CancelledError", "OperationalError"}

Interrupt(p) ==
    /\ pc[p] \in BodyPcs
    /\ \E k \in FaultKinds : Finish(p, Exc(k), NoRet, trace[p])
    /\ tx' = [tx EXCEPT ![p] = "open"]
    /\ UNCHANGED <<store, nextId, now, req, user, has_changes, pending, imap, outExc, session>>

\* ------------------------------------------------- SqlAlchemyUnitOfWork.__aexit__
\* exc_type is None: commit. session.commit flushes the session's writes and
\* commits them; a statement the storage rejects raises IntegrityError from it.
UowCommit(p) ==
    /\ pc[p] = "exit"
    /\ exc[p] = NoExc
    /\ LET f == Flush(store, SessionWrites(p)) IN
         \/ /\ f.ok
            /\ store' = f.store
            /\ tx' = [tx EXCEPT ![p] = "committed"]
            /\ outExc' = [outExc EXCEPT ![p] = NoExc]
         \/ /\ ~f.ok
            /\ \E c \in f.constraints :
                 outExc' = [outExc EXCEPT ![p] =
                              IntegrityError("UniqueViolationError", UniqueViolationMessage(c))]
            /\ tx' = [tx EXCEPT ![p] = "failed"]
            /\ UNCHANGED store
    /\ pc' = [pc EXCEPT ![p] = "close"]
    /\ trace' = [trace EXCEPT ![p] = Append(trace[p], "commit")]
    /\ UNCHANGED <<nextId, now, req, user, has_changes, pending, imap, raised, exc, ret, session>>

\* commit itself raises for another reason; nothing is committed
UowCommitFails(p) ==
    /\ pc[p] = "exit"
    /\ exc[p] = NoExc
    /\ \E k \in FaultKinds : outExc' = [outExc EXCEPT ![p] = Exc(k)]
    /\ tx' = [tx EXCEPT ![p] = "failed"]
    /\ pc' = [pc EXCEPT ![p] = "close"]
    /\ trace' = [trace EXCEPT ![p] = Append(trace[p], "commit")]
    /\ UNCHANGED <<store, nextId, now, req, user, has_changes, pending, imap, raised, exc, ret, session>>

\* the request is cancelled while the commit is awaited, after the database did it
UowCommitCancelled(p) ==
    /\ pc[p] = "exit"
    /\ exc[p] = NoExc
    /\ LET f == Flush(store, SessionWrites(p)) IN
         /\ f.ok
         /\ store' = f.store
    /\ tx' = [tx EXCEPT ![p] = "committed"]
    /\ outExc' = [outExc EXCEPT ![p] = Exc("CancelledError")]
    /\ pc' = [pc EXCEPT ![p] = "close"]
    /\ trace' = [trace EXCEPT ![p] = Append(trace[p], "commit")]
    /\ UNCHANGED <<nextId, now, req, user, has_changes, pending, imap, raised, exc, ret, session>>

\* An __aexit__ that commits whether or not an error left the scope.
UowRollback_Commits(p) ==
    /\ pc[p] = "exit"
    /\ exc[p] # NoExc
    /\ store' = Flush(store, SessionWrites(p)).store
    /\ tx' = [tx EXCEPT ![p] = "committed"]
    /\ outExc' = [outExc EXCEPT ![p] = exc[p]]
    /\ pc' = [pc EXCEPT ![p] = "close"]
    /\ trace' = [trace EXCEPT ![p] = Append(trace[p], "commit")]
    /\ UNCHANGED <<nextId, now, req, user, has_changes, pending, imap, raised, exc, ret, session>>

\* exc_type is set: rollback, and the error goes on to the caller
UowRollback(p) ==
    /\ pc[p] = "exit"
    /\ exc[p] # NoExc
    /\ tx' = [tx EXCEPT ![p] = "rolledback"]
    /\ outExc' = [outExc EXCEPT ![p] = exc[p]]
    /\ pc' = [pc EXCEPT ![p] = "close"]
    /\ trace' = [trace EXCEPT ![p] = Append(trace[p], "rollback")]
    /\ UNCHANGED <<store, nextId, now, req, user, has_changes, pending, imap, raised, exc, ret, session>>

\* rollback itself raises; its error replaces the one that caused it
UowRollbackFails(p) ==
    /\ pc[p] = "exit"
    /\ exc[p] # NoExc
    /\ \E k \in FaultKinds : outExc' = [outExc EXCEPT ![p] = Exc(k)]
    /\ tx' = [tx EXCEPT ![p] = "failed"]
    /\ pc' = [pc EXCEPT ![p] = "close"]
    /\ trace' = [trace EXCEPT ![p] = Append(trace[p], "rollback")]
    /\ UNCHANGED <<store, nextId, now, req, user, has_changes, pending, imap, raised, exc, ret, session>>

\* An __aexit__ that closes the session in the try block, not in finally.
UowClose_NotInFinally(p) ==
    /\ pc[p] = "close"
    /\ outExc[p] = exc[p]
    /\ session' = [session EXCEPT ![p] = "closed"]
    /\ tx' = [tx EXCEPT ![p] = IF tx[p] \in {"open", "failed"} THEN "rolledback" ELSE tx[p]]
    /\ pending' = [pending EXCEPT ![p] = <<>>]
    /\ imap' = [imap EXCEPT ![p] = {}]
    /\ pc' = [pc EXCEPT ![p] = "done"]
    /\ trace' = [trace EXCEPT ![p] = Append(trace[p], "close")]
    /\ UNCHANGED <<store, nextId, now, req, user, has_changes, raised, exc, ret, outExc>>

\* finally: session.close, which ends a transaction still open and empties the session
UowClose(p) ==
    /\ pc[p] = "close"
    /\ session' = [session EXCEPT ![p] = "closed"]
    /\ tx' = [tx EXCEPT ![p] = IF tx[p] \in {"open", "failed"} THEN "rolledback" ELSE tx[p]]
    /\ pending' = [pending EXCEPT ![p] = <<>>]
    /\ imap' = [imap EXCEPT ![p] = {}]
    /\ pc' = [pc EXCEPT ![p] = "done"]
    /\ trace' = [trace EXCEPT ![p] = Append(trace[p], "close")]
    /\ UNCHANGED <<store, nextId, now, req, user, has_changes, raised, exc, ret, outExc>>

\* The response is sent and the task ends; its slot serves the next request.
Return(p) ==
    /\ pc[p] = "done"
    /\ pc' = [pc EXCEPT ![p] = "idle"]
    /\ req' = [req EXCEPT ![p] = NoReq]
    /\ user' = [user EXCEPT ![p] = NoUser]
    /\ has_changes' = [has_changes EXCEPT ![p] = FALSE]
    /\ raised' = [raised EXCEPT ![p] = NoExc]
    /\ exc' = [exc EXCEPT ![p] = NoExc]
    /\ ret' = [ret EXCEPT ![p] = NoRet]
    /\ outExc' = [outExc EXCEPT ![p] = NoExc]
    /\ trace' = [trace EXCEPT ![p] = <<>>]
    /\ session' = [session EXCEPT ![p] = "none"]
    /\ tx' = [tx EXCEPT ![p] = "none"]
    /\ UNCHANGED <<store, nextId, now, pending, imap>>

\* datetime.now advances
Tick ==
    /\ now < MaxClock
    /\ now' = now + 1
    /\ UNCHANGED <<store, nextId, pc, req, user, has_changes, pending, imap, raised, exc,
                   ret, outExc, trace, session, tx>>

\* ------------------------------------------------- the entity on its own
\* A caller holds a User and calls its methods one after the other, as
\* test_user_entity_methods does. req records the call and its argument, ret the
\* entity as it was before the call, raised and exc what the call raised; a call
\* that raises leaves the entity as it was.
EntityCall(p, rq, res) ==
    /\ pc[p] = "entity"
    /\ Len(trace[p]) < MaxCalls
    /\ req' = [req EXCEPT ![p] = rq]
    /\ ret' = [ret EXCEPT ![p] = [NoRet EXCEPT !.user = user[p]]]
    /\ user' = [user EXCEPT ![p] = res.user]
    /\ raised' = [raised EXCEPT ![p] = res.exc]
    /\ exc' = [exc EXCEPT ![p] = res.exc]
    /\ trace' = [trace EXCEPT ![p] = Append(trace[p], rq.op)]
    /\ UNCHANGED <<store, nextId, now, pc, has_changes, pending, imap, outExc, session, tx>>

EntityChangeEmail(p) ==
    \E e \in Emails :
        EntityCall(p, Rq("change_email", NoId, None, e, None, None),
                   change_email(user[p], e, now))

EntityChangeUsername(p) ==
    \E u \in Usernames :
        EntityCall(p, Rq("change_username", NoId, u, None, None, None),
                   change_username(user[p], u, now))

\* set_password with the hash of a password, or with the empty string
EntitySetPassword(p) ==
    \E pw \in {Secret99, <<>>} :
        EntityCall(p, Rq("set_password", NoId, None, None, None, pw),
                   set_password(user[p], IF pw = <<>> THEN NoHash ELSE get_password_hash(pw),
                                now))

EntityMarkVerified(p) ==
    EntityCall(p, Rq("mark_email_as_verified", NoId, None, None, None, None),
               Res(NoExc, mark_email_as_verified(user[p], now)))

EntityEnable(p) ==
    EntityCall(p, Rq("enable", NoId, None, None, None, None),
               Res(NoExc, enable(user[p], now)))

EntityDisable(p) ==
    EntityCall(p, Rq("disable", NoId, None, None, None, None),
               Res(NoExc, disable(user[p], now)))

\* ------------------------------------------------- the value objects on their own
\* A caller constructs value objects and entities from raw input, as
\* value_objects_example does. req records the call and its arguments, exc what
\* it raised, user the entity the caller holds, ret the one it held before.
ValueCall(p, rq, res) ==
    /\ pc[p] = "value"
    /\ req' = [req EXCEPT ![p] = rq]
    /\ ret' = [ret EXCEPT ![p] = [NoRet EXCEPT !.user = user[p]]]
    /\ user' = [user EXCEPT ![p] = IF res.exc = NoExc THEN res.user ELSE user[p]]
    /\ raised' = [raised EXCEPT ![p] = res.exc]
    /\ exc' = [exc EXCEPT ![p] = res.exc]
    /\ UNCHANGED <<store, now, pc, has_changes, pending, imap, outExc, trace, session, tx>>

\* User.create: a call that passes the validation takes a fresh id from uuid4
ValueCreate(p) ==
    /\ nextId < MaxIds
    /\ \E n \in Names, e \in {a_at_x_io, ax} :
         LET res == User_create(n, e, nextId + 1, now) IN
         /\ ValueCall(p, Rq("create", NoId, n, e, None, None), res)
         /\ nextId' = IF res.exc = NoExc THEN nextId + 1 ELSE nextId

ValueChangeUsername(p) ==
    /\ user[p] # NoUser
    /\ \E n \in Names :
         ValueCall(p, Rq("change_username", NoId, n, None, None, None),
                   change_username(user[p], n, now))
    /\ UNCHANGED nextId

ValuePassword(p) ==
    /\ \E v \in PasswordValues :
         ValueCall(p, Rq("password", NoId, None, None, v, None), Res(Password(v), user[p]))
    /\ UNCHANGED nextId

\* The entities to_domain can build from a row: valid identity, any flags.
Entities ==
    {[id |-> 1, username |-> u, email |-> e,
      hashed_password |-> get_password_hash(Passw0rd), disabled |-> d,
      is_email_verified |-> v, created_at |-> 0, updated_at |-> 0] :
        u \in {alice, bobby}, e \in {a_at_x_io, b_at_x_io}, d \in BOOLEAN, v \in BOOLEAN}

\* ------------------------------------------------- requests
RegisterRequests(U, E, P) ==
    {Rq("register", NoId, u, e, pw, None) : u \in U, e \in E, pw \in P}

LoginRequests(U, P) == {Rq("login", NoId, u, None, pw, None) : u \in U, pw \in P}

IdRequests(ops) == {Rq(op, id, None, None, None, None) : op \in ops, id \in Ids}

UpdateRequests(U, E, P, NP) ==
    {Rq("update", id, u, e, pw, npw) : id \in Ids, u \in U, e \in E, pw \in P, npw \in NP}

\* Requests of the concurrent specification: registrations and profile updates
\* that compete for the same usernames and emails.
ConcRequests ==
    RegisterRequests({alice, bobby}, {a_at_x_io, b_at_x_io}, {Passw0rd})
    \cup UpdateRequests({None, bobby}, {None, b_at_x_io}, {Passw0rd}, {None})

\* Requests of the registration race: registrations only.
RaceRequests == RegisterRequests({alice, bobby}, {a_at_x_io, b_at_x_io}, {Passw0rd})

\* Requests of the sequential specification: every use case, valid and invalid input.
SeqRequests ==
    RegisterRequests(Usernames, Emails, Passwords)
    \cup LoginRequests(Usernames, Passwords)
    \cup IdRequests({"get", "disable", "enable"})
    \cup UpdateRequests({None, bobby}, {None, b_at_x_io}, {Passw0rd, weak}, {None, Secret99})

\* Requests of the chained specification: the use cases of
\* chain_use_cases_in_transaction, for any id and for usernames and emails that
\* repeat.
ChainRequests ==
    RegisterRequests({alice, bobby}, {a_at_x_io, b_at_x_io}, {Passw0rd})
    \cup IdRequests({"get", "disable", "enable"})

\* Requests of the account specification: two registrations, then profile
\* updates that change the username, the email and the password to valid, taken
\* and invalid values, and the administrative switches.
AccountRequests ==
    RegisterRequests({alice}, {a_at_x_io}, {Passw0rd})
    \cup RegisterRequests({carol}, {b_at_x_io}, {Passw0rd})
    \cup IdRequests({"disable", "enable"})
    \cup UpdateRequests({None, bobby}, {None, b_at_x_io, ax}, {Passw0rd},
                        {None, Secret99, weak})

\* Requests of the life specification: two registrations, profile updates that
\* change the username, the email and the password, and the two switches.
LifeRequests ==
    RegisterRequests({alice}, {a_at_x_io}, {Passw0rd})
    \cup RegisterRequests({carol}, {b_at_x_io}, {Passw0rd})
    \cup IdRequests({"disable", "enable"})
    \cup UpdateRequests({None, bobby}, {None, b_at_x_io}, {Passw0rd}, {None, Secret99})

\* Requests of the profile specification: UpdateProfile called with an account,
\* and the registrations that create accounts.
ProfileRequests ==
    RegisterRequests({alice}, {a_at_x_io}, {Passw0rd})
    \cup RegisterRequests({bobby}, {b_at_x_io}, {Passw0rd})
    \cup UpdateRequests({None, bobby, carol}, {None, a_at_x_io, b_at_x_io},
                        {Passw0rd, Secret99}, {None, Secret99})

\* The token a login of account id returned at time 0.
TokenFor(id) ==
    create_access_token([sub |-> UuidStr(id),
                         username |-> IF id = 1 THEN alice ELSE bobby,
                         email |-> IF id = 1 THEN a_at_x_io ELSE b_at_x_io], 0)

ExpiredToken == [TokenFor(1) EXCEPT !.exp = 0]

TamperedToken == [TokenFor(1) EXCEPT !.key = "OTHER_KEY"]

MalformedToken == [NoToken EXCEPT !.hdr = "garbage"]

BadSubjectToken == [TokenFor(1) EXCEPT !.sub = <<"not-a-uuid">>]

NoSubjectToken == [TokenFor(1) EXCEPT !.sub = None]

Tokens ==
    {TokenFor(id) : id \in Ids}
    \cup {ExpiredToken, TamperedToken, MalformedToken, BadSubjectToken, NoSubjectToken}

TokenRequests(ops, T, U, E, P) ==
    {TokenRq(op, t, u, e, pw, None) : op \in ops, t \in T, u \in U, e \in E, pw \in P}

\* Requests of the API specification: the token-authenticated endpoints, and the
\* operations that create, disable and enable the accounts they act on. The
\* bodies are ones UserUpdateRequest accepts: passwords of 8 characters or more.
ApiRequests ==
    RegisterRequests({alice}, {a_at_x_io}, {Passw0rd})
    \cup RegisterRequests({bobby}, {b_at_x_io}, {Passw0rd})
    \cup IdRequests({"disable", "enable"})
    \cup TokenRequests({"me", "me_verified"}, Tokens, {None}, {None}, {None})
    \cup TokenRequests({"api_update"}, Tokens, {None, bobby}, {None, b_at_x_io},
                       {Passw0rd, Secret99})

\* Requests of the wired specification: the endpoints of the two routers with the
\* tokens a login returns and tokens that are not valid, and the two switches.
\* The bodies are ones LoginRequest, RegisterRequest and UserUpdateRequest accept.
WiredRequests ==
    RegisterRequests({alice}, {a_at_x_io}, {Passw0rd})
    \cup RegisterRequests({bobby}, {b_at_x_io}, {Passw0rd})
    \cup LoginRequests({alice, bobby}, {Passw0rd, Secret99})
    \cup IdRequests({"disable", "enable"})
    \cup TokenRequests({"me", "me_verified"}, Tokens, {None}, {None}, {None})
    \cup TokenRequests({"api_update"}, Tokens, {None, bobby}, {None, b_at_x_io}, {Passw0rd})

\* Requests of the fair specification: every use case, one input of each outcome.
LiveRequests ==
    RegisterRequests({alice, bob}, {a_at_x_io, b_at_x_io}, {Passw0rd})
    \cup LoginRequests({alice}, {Passw0rd, weak})
    \cup IdRequests({"get", "disable", "enable"})
    \cup UpdateRequests({None, bobby}, {None, b_at_x_io}, {Passw0rd}, {None})

\* ------------------------------------------------- specification
\* The state when the application starts on a table that holds the rows of stored.
StartedOn(stored) ==
    /\ store \in stored
    /\ nextId = Cardinality(store)
    /\ now = 0
    /\ pc = [p \in Procs |-> "idle"]
    /\ req = [p \in Procs |-> NoReq]
    /\ user = [p \in Procs |-> NoUser]
    /\ has_changes = [p \in Procs |-> FALSE]
    /\ pending = [p \in Procs |-> <<>>]
    /\ imap = [p \in Procs |-> {}]
    /\ raised = [p \in Procs |-> NoExc]
    /\ exc = [p \in Procs |-> NoExc]
    /\ ret = [p \in Procs |-> NoRet]
    /\ outExc = [p \in Procs |-> NoExc]
    /\ trace = [p \in Procs |-> <<>>]
    /\ session = [p \in Procs |-> "none"]
    /\ tx = [p \in Procs |-> "none"]

Init == StartedOn({{}})

\* A row of table users whose email was confirmed: the column is_email_verified
\* is set by no operation of the application, only on the table itself.
ConfirmedRow(id) ==
    [id |-> id, username |-> IF id = 1 THEN alice ELSE bobby,
     email |-> IF id = 1 THEN a_at_x_io ELSE b_at_x_io,
     hashed_password |-> get_password_hash(Passw0rd), disabled |-> FALSE,
     is_email_verified |-> TRUE, created_at |-> 0, updated_at |-> 0]

\* Tables the application is started on: empty, or holding the first accounts
\* registered, with their emails confirmed.
ConfirmedTables == {{}, {ConfirmedRow(1)}, {ConfirmedRow(1), ConfirmedRow(2)}}

ConfirmedInit == StartedOn(ConfirmedTables)

RegistrationStep(p) ==
    \/ RegisterCheckUsername(p)
    \/ RegisterCheckEmail(p)

UpdateStep(p) ==
    \/ UpdateVerify(p)
    \/ UpdateCheckUsername(p)
    \/ UpdateCheckEmail(p)
    \/ UpdateUserCall(p)

AccountStep(p) ==
    \/ AuthenticateRun(p)
    \/ GetUserRun(p)
    \/ DisableUserRun(p)
    \/ EnableUserRun(p)

ScopeStep(p) ==
    \/ UowCommit(p)
    \/ UowRollback(p)
    \/ UowClose(p)
    \/ Return(p)

Fault(p) ==
    \/ Interrupt(p)
    \/ UowCommitFails(p)
    \/ UowCommitCancelled(p)
    \/ UowRollbackFails(p)

\* Spec: requests run concurrently, each in its own unit of work.
Next ==
    \E p \in Procs :
        \/ \E r \in ConcRequests : Begin(p, r)
        \/ RegistrationStep(p)
        \/ UpdateStep(p)
        \/ ScopeStep(p)

Spec == Init /\ [][Next]_vars

\* RaceSpec: concurrent registrations and nothing else.
RaceNext ==
    \E p \in Procs :
        \/ \E r \in RaceRequests : Begin(p, r)
        \/ RegistrationStep(p)
        \/ ScopeStep(p)

RaceSpec == Init /\ [][RaceNext]_vars

\* SeqSpec: one request at a time, every use case, with cancellation and
\* database failures.
Solo == CHOOSE p \in Procs : TRUE

SeqStep ==
    \/ RegistrationStep(Solo)
    \/ UpdateStep(Solo)
    \/ AccountStep(Solo)
    \/ ScopeStep(Solo)
    \/ Fault(Solo)

SeqNext ==
    \/ \E r \in SeqRequests : Begin(Solo, r)
    \/ SeqStep

SeqSpec == Init /\ [][SeqNext]_vars

\* Time passes while no request is being served.
IdleTick == pc[Solo] = "idle" /\ Tick

\* EntitySpec: the methods of one User, called in any order on any entity.
\* A caller outside any request holds one of the entities in held.
HeldInit(at, held) ==
    /\ store = {}
    /\ nextId = 0
    /\ now = 0
    /\ pc = [p \in Procs |-> IF p = Solo THEN at ELSE "idle"]
    /\ req = [p \in Procs |-> NoReq]
    /\ user \in {[p \in Procs |-> IF p = Solo THEN u ELSE NoUser] : u \in held}
    /\ has_changes = [p \in Procs |-> FALSE]
    /\ pending = [p \in Procs |-> <<>>]
    /\ imap = [p \in Procs |-> {}]
    /\ raised = [p \in Procs |-> NoExc]
    /\ exc = [p \in Procs |-> NoExc]
    /\ ret = [p \in Procs |-> NoRet]
    /\ outExc = [p \in Procs |-> NoExc]
    /\ trace = [p \in Procs |-> <<>>]
    /\ session = [p \in Procs |-> "none"]
    /\ tx = [p \in Procs |-> "none"]

EntityInit == HeldInit("entity", Entities)

EntityNext ==
    \/ EntityChangeEmail(Solo)
    \/ EntityChangeUsername(Solo)
    \/ EntitySetPassword(Solo)
    \/ EntityMarkVerified(Solo)
    \/ EntityEnable(Solo)
    \/ EntityDisable(Solo)
    \/ Tick

EntitySpec == EntityInit /\ [][EntityNext]_vars

\* ChainSpec: several use cases run one after the other inside each scope.
ChainNext ==
    \/ \E r \in ChainRequests : Begin(Solo, r)
    \/ \E r \in ChainRequests : Continue(Solo, r)
    \/ RegistrationStep(Solo)
    \/ GetUserRun(Solo)
    \/ DisableUserRun(Solo)
    \/ EnableUserRun(Solo)
    \/ UpdateUserCall(Solo)
    \/ ScopeStep(Solo)

ChainSpec == Init /\ [][ChainNext]_vars

\* ValueSpec: value objects and entities constructed from any input.
ValueNext ==
    \/ ValueCreate(Solo)
    \/ ValueChangeUsername(Solo)
    \/ ValuePassword(Solo)

ValueSpec == HeldInit("value", {NoUser}) /\ [][ValueNext]_vars

\* ProfileSpec: one request at a time, UpdateProfile on accounts of every kind;
\* time passes between requests.
ProfileNext ==
    \/ \E r \in ProfileRequests : Begin(Solo, r)
    \/ RegistrationStep(Solo)
    \/ UpdateStep(Solo)
    \/ ScopeStep(Solo)
    \/ IdleTick

ProfileSpec == ConfirmedInit /\ [][ProfileNext]_vars

\* AccountSpec: one request at a time over the life of two accounts, with time
\* passing between the requests.
AccountNext ==
    \/ \E r \in AccountRequests : Begin(Solo, r)
    \/ RegistrationStep(Solo)
    \/ UpdateStep(Solo)
    \/ DisableUserRun(Solo)
    \/ EnableUserRun(Solo)
    \/ ScopeStep(Solo)
    \/ IdleTick

AccountSpec == Init /\ [][AccountNext]_vars

\* Time passes between the calls of a caller that holds an entity.
HeldTick == pc[Solo] = "entity" /\ Tick

\* LifeSpec: an account over its life: an entity in the hands of a caller that
\* calls its methods in any order, or rows written and changed by the use cases,
\* one request at a time, with time passing.
LifeNext ==
    \/ \E r \in LifeRequests : Begin(Solo, r)
    \/ RegistrationStep(Solo)
    \/ UpdateStep(Solo)
    \/ DisableUserRun(Solo)
    \/ EnableUserRun(Solo)
    \/ ScopeStep(Solo)
    \/ IdleTick
    \/ EntityChangeEmail(Solo)
    \/ EntityChangeUsername(Solo)
    \/ EntitySetPassword(Solo)
    \/ EntityMarkVerified(Solo)
    \/ EntityEnable(Solo)
    \/ EntityDisable(Solo)
    \/ HeldTick

LifeSpec == (Init \/ EntityInit) /\ [][LifeNext]_vars

\* WiredSpec: one request at a time, the operations the application exposes and
\* nothing that confirms an email.
WiredNext ==
    \/ \E r \in WiredRequests : Begin(Solo, r)
    \/ RegistrationStep(Solo)
    \/ AuthenticateRun(Solo)
    \/ DisableUserRun(Solo)
    \/ EnableUserRun(Solo)
    \/ CurrentUserRun(Solo)
    \/ UpdateUserCall(Solo)
    \/ ScopeStep(Solo)

WiredSpec == Init /\ [][WiredNext]_vars

\* ApiSpec: one request at a time, the endpoints behind get_current_user.
ApiNext ==
    \/ \E r \in ApiRequests : Begin(Solo, r)
    \/ RegistrationStep(Solo)
    \/ DisableUserRun(Solo)
    \/ EnableUserRun(Solo)
    \/ CurrentUserRun(Solo)
    \/ UseCaseDepCancelled(Solo)
    \/ UpdateStep(Solo)
    \/ ScopeStep(Solo)

ApiSpec == ConfirmedInit /\ [][ApiNext]_vars

\* FairSeqSpec: the event loop resumes every task that can run, and every call to
\* the database returns or raises.
LiveNext ==
    \/ \E r \in LiveRequests : Begin(Solo, r)
    \/ SeqStep

FairSeqSpec == Init /\ [][LiveNext]_vars /\ WF_vars(SeqStep)

\* ================================================= properties
\* The unit of work scope of p has been left: its outcome is known.
Ended(p) == pc[p] \in {"close", "done"}

\* The request of p succeeded: nothing was raised to its caller.
Succeeded(p) == exc[p] = NoExc /\ outExc[p] = NoExc

\* The account p's Register created is in the committed store.
AccountCommitted(p) == user[p].id # NoId /\ \E r \in store : r.id = user[p].id

\* p and q are two Register requests with the same username and different emails,
\* and no account other than theirs holds that username or one of their emails.
SameUsernameRace(p, q) ==
    /\ p # q
    /\ Ended(p) /\ Ended(q)
    /\ req[p].op = "register" /\ req[q].op = "register"
    /\ req[p].username = req[q].username
    /\ req[p].email # req[q].email
    /\ \A r \in store :
         r.id \notin {user[p].id, user[q].id} =>
           /\ r.username # req[p].username
           /\ r.email \notin {req[p].email, req[q].email}

\* C1: of two Register requests with the same username and different emails, run
\* in any interleaving against a store without that username, exactly one succeeds
\* and has its account committed; the other fails and commits no account.
C1_ExactlyOneWinner ==
    \A p, q \in Procs :
        SameUsernameRace(p, q) =>
            /\ Succeeded(p) # Succeeded(q)
            /\ Succeeded(p) <=> AccountCommitted(p)
            /\ Succeeded(q) <=> AccountCommitted(q)

\* Both pre-checks passed for both requests and the storage constraint decided.
C1_Witness ==
    \E p, q \in Procs :
        /\ SameUsernameRace(p, q)
        /\ Succeeded(p) /\ AccountCommitted(p)
        /\ outExc[q].kind = "IntegrityError"
        /\ Count(trace[q], "create_user") = 1

\* C2: when the storage rejects a Register's write by a uniqueness constraint, the
\* caller receives UsernameAlreadyExists or EmailAlreadyExists, never the storage's
\* own uniqueness error.
C2_UniqueViolationTranslated ==
    \A p \in Procs :
        Ended(p) /\ req[p].op = "register" =>
            ~(outExc[p].kind = "IntegrityError" /\ outExc[p].orig = "UniqueViolationError")

\* C3: in every committed state of the store, under any interleaving of Register
\* and UpdateProfile requests, no two distinct accounts share an id, a username or
\* an email.
C3_StoreUnique ==
    \A r1, r2 \in store :
        r1 # r2 => /\ r1.id # r2.id
                   /\ r1.username # r2.username
                   /\ r1.email # r2.email

\* An UpdateProfile and a Register raced for a name and the constraint rejected
\* the update, two accounts being committed.
C3_Witness ==
    /\ Cardinality(store) = 2
    /\ \E p, q \in Procs :
         /\ req[p].op = "update" /\ Ended(p)
         /\ outExc[p].kind = "IntegrityError"
         /\ req[q].op = "register" /\ Ended(q) /\ Succeeded(q)

\* A write of the session is in the committed store.
WriteVisible(w) ==
    IF w.kind = "insert" THEN w.row \in store
    ELSE \E t \in store : t.id = w.orig.id /\ ChangedColumns(t, w.orig, w.row) = t

\* A write of the session left no trace in the committed store.
WriteAbsent(w) ==
    IF w.kind = "insert" THEN \A t \in store : t.id # w.row.id
    ELSE \A t \in store : t.id = w.orig.id => t = w.orig

\* C4: a scope left without an error performs exactly one commit and no rollback,
\* a scope left with an error exactly one rollback and no commit; the writes of
\* the invocation are then all in the committed store or none of them is.
C4_CommitXorRollback ==
    \A p \in Procs :
        /\ Ended(p) =>
             IF exc[p] = NoExc
             THEN Count(trace[p], "commit") = 1 /\ Count(trace[p], "rollback") = 0
             ELSE Count(trace[p], "rollback") = 1 /\ Count(trace[p], "commit") = 0
        /\ pc[p] = "close" =>
             LET ws == SessionWrites(p) IN
             IF tx[p] = "committed"
             THEN \A i \in 1..Len(ws) : WriteVisible(ws[i])
             ELSE \A i \in 1..Len(ws) : WriteAbsent(ws[i])

\* A scope with a staged write was left without an error and committed it.
C4_Witness ==
    \E p \in Procs :
        /\ pc[p] = "close"
        /\ exc[p] = NoExc
        /\ tx[p] = "committed"
        /\ Len(SessionWrites(p)) > 0
        /\ Count(trace[p], "commit") = 1

\* C5: on every exit path of the scope (normal completion, an error, cancellation,
\* commit or rollback raising) the transaction is resolved and the session is
\* eventually closed; no request ends with its transaction open.
C5_ScopeResolves ==
    /\ \A p \in Procs :
         [](pc[p] = "done" => session[p] = "closed" /\ tx[p] \in {"committed", "rolledback"})
    /\ \A p \in Procs :
         (pc[p] = "exit") ~> (session[p] = "closed" /\ tx[p] \in {"committed", "rolledback"})

\* commit itself raised, and the session was closed with the transaction undone.
C5_Witness ==
    \E p \in Procs :
        /\ pc[p] = "done"
        /\ exc[p] = NoExc
        /\ outExc[p].kind = "OperationalError"
        /\ session[p] = "closed"
        /\ tx[p] = "rolledback"

\* C6: a domain error raised inside a use case leaves execute as the same error,
\* is followed by rollback and by no retry, and no step of the failed request
\* changes the committed store.
C6_DomainErrorPropagates ==
    /\ [](\A p \in Procs :
            pc[p] \in {"exit", "close", "done"} /\ raised[p].kind \in DomainExceptionKinds
                => exc[p] = raised[p])
    /\ [][\A p \in Procs :
            pc[p] = "exit" /\ raised[p].kind \in DomainExceptionKinds /\ pc'[p] # pc[p]
                => /\ pc'[p] = "close"
                   /\ trace'[p] = Append(trace[p], "rollback")
                   /\ store' = store]_vars
    /\ [][store' # store => \E p \in Procs : pc[p] = "exit" /\ raised[p] = NoExc]_vars

\* A request failed with a domain error against a store holding an account.
C6_Witness ==
    \E p \in Procs :
        /\ pc[p] = "done"
        /\ raised[p].kind \in DomainExceptionKinds
        /\ outExc[p] = raised[p]
        /\ Count(trace[p], "rollback") = 1
        /\ store # {}

\* The use case of a login request ran to its end (no cancellation, no database failure).
LoginRan(p) ==
    /\ pc[p] \in {"exit", "close", "done"}
    /\ req[p].op = "login"
    /\ raised[p].kind \notin FaultKinds

UnknownUsername(p) == \A r \in store : r.username # req[p].username

WrongPassword(p) ==
    \E r \in store : r.username = req[p].username /\ r.hashed_password.digest # req[p].password

\* C7: Authenticate with an unknown username and Authenticate with a known
\* username and a non-matching password end with the same result:
\* InvalidCredentials, no token, nothing else.
C7_SameFailure ==
    \A p \in Procs :
        LoginRan(p) /\ (UnknownUsername(p) \/ WrongPassword(p)) =>
            /\ exc[p] = Exc("InvalidCredentials")
            /\ ret[p] = NoRet

\* A login with the password of no account at a username that has one.
C7_Witness ==
    \E p \in Procs :
        /\ LoginRan(p) /\ pc[p] = "done"
        /\ WrongPassword(p)
        /\ outExc[p].kind = "InvalidCredentials"

\* C8: Authenticate with the right username and password fails with UserDisabled
\* and no token while the account is disabled, and issues a token while it is not.
C8_DisabledLogin ==
    \A p \in Procs :
        LoginRan(p) =>
            \A r \in store :
                r.username = req[p].username /\ r.hashed_password.digest = req[p].password =>
                    IF r.disabled
                    THEN exc[p] = Exc("UserDisabled") /\ ret[p] = NoRet
                    ELSE exc[p] = NoExc /\ ret[p].access_token # NoToken

\* A Register and a Disable were committed and the right credentials were refused.
C8_Witness ==
    \E p \in Procs :
        /\ LoginRan(p)
        /\ exc[p].kind = "UserDisabled"
        /\ \E r \in store : r.username = req[p].username /\ r.disabled

\* C9: Authenticate returns a token only for an existing, enabled account whose
\* hash the password verifies against; the result is of type bearer and the token
\* carries the account's id as subject and its username and email as claims.
C9_TokenContents ==
    \A p \in Procs :
        req[p].op = "login" /\ ret[p].access_token # NoToken =>
            /\ exc[p] = NoExc
            /\ ret[p].token_type = "bearer"
            /\ \E r \in store :
                 /\ r.username = req[p].username
                 /\ r.hashed_password.digest = req[p].password
                 /\ ~r.disabled
                 /\ ret[p].access_token.sub = <<"uuid", r.id>>
                 /\ ret[p].access_token.username = r.username
                 /\ ret[p].access_token.email = r.email

\* A login returned a token.
C9_Witness ==
    \E p \in Procs :
        /\ pc[p] = "done"
        /\ req[p].op = "login"
        /\ ret[p].token_type = "bearer"
        /\ ret[p].access_token.sub # <<>>

\* The use case of a Register request ran to its end.
RegisterRan(p) ==
    /\ pc[p] \in {"exit", "close", "done"}
    /\ req[p].op = "register"
    /\ raised[p].kind \notin FaultKinds

\* An account other than the one this request created holds the request's username.
UsernameHeld(p) == \E r \in store : r.id # user[p].id /\ r.username = req[p].username

EmailHeld(p) == \E r \in store : r.id # user[p].id /\ r.email = req[p].email

\* C10: a Register whose username a committed account holds fails with
\* UsernameAlreadyExists (also when the email is held too); one whose username is
\* free and whose email is held fails with EmailAlreadyExists; create_user is not
\* called in either case.
C10_PreCheck ==
    \A p \in Procs :
        RegisterRan(p) =>
            /\ UsernameHeld(p) =>
                 exc[p] = Exc("UsernameAlreadyExists") /\ Count(trace[p], "create_user") = 0
            /\ ~UsernameHeld(p) /\ EmailHeld(p) =>
                 exc[p] = Exc("EmailAlreadyExists") /\ Count(trace[p], "create_user") = 0

\* A Register asked for a username and an email that are both held.
C10_Witness ==
    \E p \in Procs :
        /\ RegisterRan(p) /\ pc[p] = "done"
        /\ UsernameHeld(p) /\ EmailHeld(p)
        /\ outExc[p].kind = "UsernameAlreadyExists"

\* A Register whose use case returned normally.
RegisterReturned(p) ==
    /\ pc[p] \in {"exit", "close", "done"}
    /\ req[p].op = "register"
    /\ exc[p] = NoExc

\* The account as Register describes it: the given username and email, enabled,
\* email not verified, a non-empty hash the given password verifies against.
AsRegistered(a, r) ==
    /\ a.username = r.username
    /\ a.email = r.email
    /\ a.disabled = FALSE
    /\ a.is_email_verified = FALSE
    /\ a.hashed_password # NoHash
    /\ a.hashed_password.digest # <<>>
    /\ verify_password(r.password, a.hashed_password)

\* C11: a successful Register returns an account with the given username and
\* email, enabled, unverified, with a non-empty hash of the given password, after
\* exactly one create_user; its commit adds exactly that one account to the store.
C11_RegisterPersists ==
    /\ [](\A p \in Procs :
            RegisterReturned(p) =>
                /\ AsRegistered(ret[p].user, req[p])
                /\ ret[p].user.id # NoId
                /\ Count(trace[p], "create_user") = 1)
    /\ [](\A p \in Procs :
            RegisterReturned(p) /\ tx[p] = "committed" =>
                \E r \in store :
                    /\ r.id = ret[p].user.id
                    /\ AsRegistered(r, req[p])
                    /\ \A r2 \in store : r2.id = r.id \/ r2.username = r.username => r2 = r)
    /\ [][\A p \in Procs :
            RegisterReturned(p) /\ tx[p] # "committed" /\ tx'[p] = "committed" =>
                /\ store \subseteq store'
                /\ Cardinality(store') = Cardinality(store) + 1
                /\ \A r \in store' \ store : r.id = ret[p].user.id]_vars

\* A Register returned and its scope committed the account.
C11_Witness ==
    \E p \in Procs :
        /\ RegisterReturned(p) /\ pc[p] = "done"
        /\ tx[p] = "committed"
        /\ outExc[p] = NoExc
        /\ \E r \in store : r.id = ret[p].user.id /\ r.username = req[p].username

\* The use case of an UpdateProfile handed an account has run and the
\* scope has not been left yet: the store is the one the request found.
UpdateAtExit(p) == pc[p] = "exit" /\ req[p].op = "update"

\* The account an UpdateProfile names, as committed.
Target(p) == {r \in store : r.id = req[p].id}

\* The entity carries what the row carries, apart from the fields in except.
SameAccount(u, r, except) ==
    /\ "username" \in except \/ u.username = r.username
    /\ "email" \in except \/ u.email = r.email
    /\ "hashed_password" \in except \/ u.hashed_password = r.hashed_password
    /\ "is_email_verified" \in except \/ u.is_email_verified = r.is_email_verified
    /\ "updated_at" \in except \/ u.updated_at = r.updated_at
    /\ u.id = r.id /\ u.disabled = r.disabled /\ u.created_at = r.created_at

\* C12: UpdateProfile with a current password that does not verify fails with
\* InvalidPasswordException whatever else the DTO holds, before any uniqueness
\* lookup or update_user, and leaves the account as it was.
C12_WrongCurrentPassword ==
    /\ [](\A p \in Procs : \A r \in Target(p) :
            UpdateAtExit(p) /\ r.hashed_password.digest # req[p].password =>
                /\ exc[p] = Exc("InvalidPasswordException")
                /\ exc[p].kind # "InvalidCredentials"
                /\ ret[p] = NoRet
                /\ Count(trace[p], "get_by_username") = 0
                /\ Count(trace[p], "get_by_email") = 0
                /\ Count(trace[p], "update_user") = 0
                /\ SameAccount(user[p], r, {}))
    /\ [][\A p \in Procs :
            req[p].op = "update" /\ exc[p].kind = "InvalidPasswordException" =>
                store' = store]_vars

\* An UpdateProfile that asks for a new username, email and password was refused
\* for its current password.
C12_Witness ==
    \E p \in Procs : \E r \in Target(p) :
        /\ pc[p] = "done" /\ req[p].op = "update"
        /\ r.hashed_password.digest # req[p].password
        /\ req[p].username \notin {None, r.username}
        /\ req[p].email \notin {None, r.email}
        /\ req[p].new_password # None
        /\ outExc[p].kind = "InvalidPasswordException"

\* The DTO asks for nothing the account does not already have.
NothingToChange(p, r) ==
    /\ req[p].username \in {None, r.username}
    /\ req[p].email \in {None, r.email}
    /\ req[p].new_password = None

\* The claim as it is worded: nothing to change means no lookup, no update_user
\* and the account returned as it is; and whenever a change was applied,
\* update_user was called exactly once, as the last call.
C13_AnyChangeSaved ==
    \A p \in Procs : \A r \in Target(p) :
        UpdateAtExit(p) /\ r.hashed_password.digest = req[p].password =>
            IF NothingToChange(p, r)
            THEN /\ exc[p] = NoExc
                 /\ Count(trace[p], "get_by_username") = 0
                 /\ Count(trace[p], "get_by_email") = 0
                 /\ Count(trace[p], "update_user") = 0
                 /\ SameAccount(ret[p].user, r, {})
            ELSE has_changes[p] =>
                 /\ Count(trace[p], "update_user") = 1
                 /\ trace[p][Len(trace[p])] = "update_user"

\* C13: UpdateProfile with the right current password and nothing to change makes
\* no uniqueness lookup and no update_user and returns the account as it is, and
\* its commit leaves the store as it is; an UpdateProfile that has something to
\* change and returns has applied a change and called update_user exactly once,
\* as its last call; one that raises has not called update_user, whether or not
\* it had applied a change.
C13_NoOpUpdate ==
    /\ [](\A p \in Procs : \A r \in Target(p) :
            UpdateAtExit(p) /\ r.hashed_password.digest = req[p].password =>
                IF NothingToChange(p, r)
                THEN /\ exc[p] = NoExc
                     /\ Count(trace[p], "get_by_username") = 0
                     /\ Count(trace[p], "get_by_email") = 0
                     /\ Count(trace[p], "update_user") = 0
                     /\ SameAccount(ret[p].user, r, {})
                ELSE /\ exc[p] = NoExc =>
                          /\ has_changes[p]
                          /\ Count(trace[p], "update_user") = 1
                          /\ trace[p][Len(trace[p])] = "update_user"
                          /\ ret[p].user = user[p]
                     /\ exc[p] # NoExc => Count(trace[p], "update_user") = 0)
    /\ [][\A p \in Procs : \A r \in Target(p) :
            UpdateAtExit(p) /\ exc[p] = NoExc /\ NothingToChange(p, r) =>
                store' = store]_vars

\* An UpdateProfile that names the account's own username and email returned.
C13_Witness ==
    \E p \in Procs : \E r \in Target(p) :
        /\ pc[p] = "done" /\ req[p].op = "update"
        /\ req[p].username = r.username
        /\ req[p].email = r.email
        /\ req[p].new_password = None
        /\ outExc[p] = NoExc
        /\ ret[p].user.id = r.id
        /\ now > r.updated_at
        /\ Count(trace[p], "update_user") = 0

\* The account after an UpdateProfile that changed the email of r: the new email,
\* not verified, and username, hash and disabled as in r unless the DTO names
\* another username or a new password.
EmailChanged(a, r, dto) ==
    /\ a.id = r.id
    /\ a.email = dto.email
    /\ a.is_email_verified = FALSE
    /\ a.disabled = r.disabled
    /\ dto.username \in {None, r.username} => a.username = r.username
    /\ dto.new_password = None => a.hashed_password = r.hashed_password

\* C14: a successful UpdateProfile whose email differs from the current one
\* returns, and its commit persists, the account with the new email and
\* is_email_verified = FALSE whatever the flag was, and with username, hash and
\* disabled unchanged unless the same DTO changes them.
C14_EmailChangeResetsVerified ==
    /\ [](\A p \in Procs : \A r \in Target(p) :
            UpdateAtExit(p) /\ exc[p] = NoExc /\ req[p].email \notin {None, r.email} =>
                EmailChanged(ret[p].user, r, req[p]))
    /\ [][\A p \in Procs : \A r \in Target(p) :
            /\ UpdateAtExit(p) /\ exc[p] = NoExc /\ req[p].email \notin {None, r.email}
            /\ tx'[p] = "committed"
            => \E r2 \in store' : EmailChanged(r2, r, req[p])]_vars

\* The email of an account whose email had been confirmed was changed and committed.
C14_Witness ==
    \E p \in Procs : \E e \in imap[p] :
        /\ pc[p] = "close" /\ req[p].op = "update"
        /\ tx[p] = "committed"
        /\ e.orig.id = req[p].id
        /\ e.orig.is_email_verified
        /\ e.orig.email # req[p].email
        /\ \E r2 \in store :
             r2.id = e.orig.id /\ r2.email = req[p].email /\ ~r2.is_email_verified

\* The DTO names a username other than r's own that another account holds.
UsernameTaken(p, r) ==
    /\ req[p].username \notin {None, r.username}
    /\ \E o \in store : o.id # r.id /\ o.username = req[p].username

EmailTaken(p, r) ==
    /\ req[p].email \notin {None, r.email}
    /\ \E o \in store : o.id # r.id /\ o.email = req[p].email

\* C15: UpdateProfile with the right current password fails with
\* UsernameAlreadyExists when the DTO names another account's username, before
\* any email lookup; otherwise with EmailAlreadyExists when it names another
\* account's email, after the username was checked and changed; update_user is
\* not called and the store stays as it was.
C15_UpdateConflicts ==
    /\ [](\A p \in Procs : \A r \in Target(p) :
            UpdateAtExit(p) /\ r.hashed_password.digest = req[p].password =>
                /\ UsernameTaken(p, r) =>
                     /\ exc[p] = Exc("UsernameAlreadyExists")
                     /\ Count(trace[p], "get_by_email") = 0
                     /\ Count(trace[p], "update_user") = 0
                /\ ~UsernameTaken(p, r) /\ EmailTaken(p, r) =>
                     /\ exc[p] = Exc("EmailAlreadyExists")
                     /\ Count(trace[p], "update_user") = 0
                     /\ req[p].username \notin {None, r.username} =>
                          /\ user[p].username = req[p].username
                          /\ trace[p] = <<"get_by_username", "get_by_email">>)
    /\ [][\A p \in Procs :
            req[p].op = "update"
            /\ exc[p].kind \in {"UsernameAlreadyExists", "EmailAlreadyExists"} =>
                store' = store]_vars

\* An UpdateProfile changed the username and was then refused for its email.
C15_Witness ==
    \E p \in Procs : \E r \in Target(p) :
        /\ pc[p] = "done" /\ req[p].op = "update"
        /\ outExc[p].kind = "EmailAlreadyExists"
        /\ EmailTaken(p, r)
        /\ user[p].username = req[p].username
        /\ r.username # req[p].username

\* The last call on the entity was change_email and it returned.
EmailJustChanged(p) ==
    /\ pc[p] = "entity"
    /\ req[p].op = "change_email"
    /\ exc[p] = NoExc

\* C16: change_email with a valid email leaves is_email_verified = FALSE for
\* every prior value of the flag, also when the email is the current one and when
\* it is called twice with the same value, and leaves username, hash and disabled
\* as they were.
C16_ChangeEmailUnverifies ==
    \A p \in Procs :
        EmailJustChanged(p) =>
            /\ user[p].is_email_verified = FALSE
            /\ user[p].email = req[p].email
            /\ user[p].username = ret[p].user.username
            /\ user[p].hashed_password = ret[p].user.hashed_password
            /\ user[p].disabled = ret[p].user.disabled
            /\ user[p].id = ret[p].user.id

\* The email was confirmed and change_email was then called with the email the
\* entity already had.
C16_Witness ==
    \E p \in Procs :
        /\ EmailJustChanged(p)
        /\ ret[p].user.is_email_verified
        /\ ret[p].user.email = req[p].email
        /\ Len(trace[p]) >= 2
        /\ trace[p][Len(trace[p]) - 1] = "mark_email_as_verified"

\* p runs Disable or Enable; Wanted is the flag the operation sets.
AccessOp(p) == req[p].op \in {"disable", "enable"}

Wanted(p) == req[p].op = "disable"

\* C17: Disable(id) of an existing account returns and persists it with
\* disabled = TRUE whatever the flag was, Enable(id) with disabled = FALSE, so a
\* second application leaves the flag of the first; is_enabled is the negation of
\* disabled; for an id with no account both fail with UserNotFound and call no
\* update_user.
C17_AccessIdempotent ==
    /\ [](\A p \in Procs :
            pc[p] = "exit" /\ AccessOp(p) /\ raised[p].kind \notin FaultKinds =>
                /\ Target(p) = {} =>
                     /\ exc[p] = Exc("UserNotFound")
                     /\ ret[p] = NoRet
                     /\ Count(trace[p], "update_user") = 0
                /\ \A r \in Target(p) :
                     /\ exc[p] = NoExc
                     /\ SameAccount(ret[p].user, [r EXCEPT !.disabled = Wanted(p)],
                                    {"updated_at"})
                     /\ is_enabled(ret[p].user) = ~Wanted(p)
                     /\ Count(trace[p], "update_user") = 1)
    /\ [](\A p \in Procs : \A r \in Target(p) :
            pc[p] = "done" /\ AccessOp(p) /\ tx[p] = "committed" =>
                /\ r.disabled = Wanted(p)
                /\ is_enabled(to_domain(r).user) = ~r.disabled)
    /\ [][\A p \in Procs :
            AccessOp(p) /\ pc[p] \in {"exit", "close"} /\ Target(p) = {} =>
                store' = store]_vars

\* A Disable of an account that was already disabled committed, and the account
\* is disabled.
C17_Witness ==
    \E p \in Procs : \E e \in imap[p] : \E r \in Target(p) :
        /\ pc[p] = "close" /\ req[p].op = "disable"
        /\ tx[p] = "committed"
        /\ e.orig.id = req[p].id
        /\ e.orig.disabled
        /\ r.disabled
        /\ ret[p].user.disabled

\* GetUser has run to its end without an outside failure.
GetUserRan(p) == pc[p] = "exit" /\ req[p].op = "get" /\ raised[p].kind \notin FaultKinds

\* C18: GetUser(id) fails with UserNotFound when no account has the id, with
\* UserDisabled when the account is disabled, and otherwise returns the account
\* with that id; it calls neither create_user nor update_user and the store is
\* the same after it.
C18_GetUserOutcomes ==
    /\ [](\A p \in Procs :
            GetUserRan(p) =>
                /\ Target(p) = {} => exc[p] = Exc("UserNotFound") /\ ret[p] = NoRet
                /\ \A r \in Target(p) :
                     IF r.disabled
                     THEN exc[p] = Exc("UserDisabled") /\ ret[p] = NoRet
                     ELSE /\ exc[p] = NoExc
                          /\ ret[p].user.id = req[p].id
                          /\ SameAccount(ret[p].user, r, {})
                /\ Count(trace[p], "create_user") = 0
                /\ Count(trace[p], "update_user") = 0)
    /\ [][\A p \in Procs :
            req[p].op = "get" /\ pc[p] \in {"get", "exit", "close"} =>
                store' = store]_vars

\* GetUser was refused for a disabled account.
C18_Witness ==
    \E p \in Procs : \E r \in Target(p) :
        /\ GetUserRan(p)
        /\ r.disabled
        /\ exc[p].kind = "UserDisabled"

\* p serves a token-authenticated endpoint.
TokenOp(p) == req[p].op \in {"me", "me_verified", "api_update"}

\* C19: from the commit of Disable(id) until the commit of an Enable(id) the
\* account's row is disabled, and while it is, every token-authenticated request
\* that presents the valid token of that id fails with UserDisabled: it returns
\* nothing and updates nothing.
C19_DisabledTokenRefused ==
    /\ [](\A p \in Procs : \A r \in store :
            /\ TokenOp(p) /\ pc[p] \in {"exit", "close", "done"}
            /\ req[p].token = TokenFor(r.id)
            /\ r.disabled
            => /\ exc[p] = Exc("UserDisabled")
               /\ ret[p] = NoRet
               /\ Count(trace[p], "update_user") = 0
               /\ tx[p] # "committed"
               /\ pc[p] = "done" => outExc[p] = Exc("UserDisabled"))
    /\ [][\A r \in store : \A r2 \in store' :
            r.id = r2.id /\ r.disabled # r2.disabled =>
                \E p \in Procs :
                    /\ pc[p] = "exit" /\ tx'[p] = "committed"
                    /\ req[p].id = r.id
                    /\ req[p].op = IF r2.disabled THEN "disable" ELSE "enable"]_vars

\* A disabled account with a confirmed email presented its valid token and its
\* current password to the update endpoint and was refused.
C19_Witness ==
    \E p \in Procs : \E r \in store :
        /\ pc[p] = "done" /\ req[p].op = "api_update"
        /\ req[p].token = TokenFor(r.id)
        /\ r.disabled /\ r.is_email_verified
        /\ r.hashed_password.digest = req[p].password
        /\ outExc[p].kind = "UserDisabled"

\* Tokens that jwt.decode rejects, and tokens it accepts whose subject is missing
\* or is not a UUID.
RejectedTokens == {ExpiredToken, TamperedToken, MalformedToken}

SubjectlessTokens == {BadSubjectToken, NoSubjectToken}

\* C20: decode_access_token returns None for an expired, a wrongly signed and a
\* malformed token; get_current_user then fails with InvalidToken without a
\* lookup, and so it does when the subject is absent or not a UUID.
C20_InvalidTokenRejected ==
    /\ \A t \in RejectedTokens : decode_access_token(t, now) = None
    /\ \A t \in SubjectlessTokens :
         decode_access_token(t, now) = None \/ UUID(decode_access_token(t, now)) = NoId
    /\ \A p \in Procs :
         /\ TokenOp(p) /\ pc[p] \in {"exit", "close", "done"}
         /\ req[p].token \in RejectedTokens \cup SubjectlessTokens
         => /\ exc[p] = Exc("InvalidToken")
            /\ raised[p] = NoExc
            /\ ret[p] = NoRet
            /\ trace[p] \in Seq({"rollback", "close"})
            /\ imap[p] = {}
            /\ pc[p] = "done" => outExc[p] = Exc("InvalidToken")

\* An enabled account's expired token was presented and refused as invalid.
C20_Witness ==
    \E p \in Procs : \E r \in store :
        /\ pc[p] = "done" /\ TokenOp(p)
        /\ req[p].token = ExpiredToken
        /\ UuidStr(r.id) = req[p].token.sub
        /\ ~r.disabled
        /\ outExc[p].kind = "InvalidToken"

\* p has just built an identity: by User.create from a username and an email, or
\* by change_username from a username and the email of the entity it holds.
IdentityBuilt(p) == pc[p] = "value" /\ req[p].op \in {"create", "change_username"}

IdentityEmail(p) == IF req[p].op = "create" THEN req[p].email ELSE ret[p].user.email

\* C21: User.create and change_username succeed exactly when the username has 4
\* to 10 characters and the email contains "@"; any other length, the empty
\* username included, raises InvalidUsernameFormat, also when the email is invalid
\* too; a valid username with an email without "@" raises InvalidEmailFormat.
C21_IdentityRule ==
    \A p \in Procs :
        IdentityBuilt(p) =>
            IF Len(req[p].username) < USERNAME_MIN_LEN \/ Len(req[p].username) > USERNAME_MAX_LEN
            THEN exc[p] = Exc("InvalidUsernameFormat") /\ user[p] = ret[p].user
            ELSE IF \A i \in 1..Len(IdentityEmail(p)) : IdentityEmail(p)[i] # "@"
            THEN exc[p] = Exc("InvalidEmailFormat") /\ user[p] = ret[p].user
            ELSE /\ exc[p] = NoExc
                 /\ user[p].username = req[p].username
                 /\ user[p].email = IdentityEmail(p)

\* change_username accepted a username of the greatest length allowed.
C21_Witness ==
    \E p \in Procs :
        /\ IdentityBuilt(p) /\ req[p].op = "change_username"
        /\ Len(req[p].username) = USERNAME_MAX_LEN
        /\ exc[p] = NoExc
        /\ user[p].username = req[p].username
        /\ ret[p].user.username # req[p].username

\* Letters and digits as the words of the rule read: any uppercase letter, any
\* lowercase letter, any digit, in ASCII or outside it.
UppercaseLetters == UpperChars \cup {"U+041F"}

\* Password(value) has just been constructed.
PasswordBuilt(p) == pc[p] = "value" /\ req[p].op = "password"

\* C22: Password(value) succeeds exactly when the value has at least 8 characters
\* and contains an uppercase letter, a lowercase letter and a digit; otherwise it
\* raises InvalidPasswordFormat with the message of the first rule broken, in the
\* order length, uppercase, lowercase, digit.
C22_PasswordRule ==
    \A p \in Procs :
        PasswordBuilt(p) =>
            exc[p] = IF Len(req[p].password) < PASSWORD_MIN_LEN
                     THEN InvalidPasswordFormat("min_length")
                     ELSE IF ~\E i \in 1..Len(req[p].password) :
                                req[p].password[i] \in UppercaseLetters
                     THEN InvalidPasswordFormat("uppercase")
                     ELSE IF ~\E i \in 1..Len(req[p].password) :
                                req[p].password[i] \in LowerChars
                     THEN InvalidPasswordFormat("lowercase")
                     ELSE IF ~\E i \in 1..Len(req[p].password) :
                                req[p].password[i] \in DigitChars
                     THEN InvalidPasswordFormat("digit")
                     ELSE NoExc

\* The error of the first step of Register that fails for p's request, in the
\* order of the steps; NoExc when all pass.
FirstRegisterFailure(p) ==
    IF UsernameHeld(p) THEN Exc("UsernameAlreadyExists")
    ELSE IF EmailHeld(p) THEN Exc("EmailAlreadyExists")
    ELSE IF UserIdentity(req[p].username, req[p].email) # NoExc
    THEN UserIdentity(req[p].username, req[p].email)
    ELSE Password(req[p].password)

\* C23: Register calls create_user only after the username lookup, the email
\* lookup, the identity validation and the password validation have passed, in
\* that order; when a step fails, the error is that of the first failing step,
\* create_user is not called and the store stays as it is.
C23_RegisterOrder ==
    /\ [](\A p \in Procs :
            RegisterRan(p) =>
                /\ raised[p] = FirstRegisterFailure(p)
                /\ raised[p] = NoExc =>
                     /\ SubSeq(trace[p], 1, 3) = <<"get_by_username", "get_by_email", "create_user">>
                     /\ Count(trace[p], "create_user") = 1
                /\ raised[p] # NoExc =>
                     /\ Count(trace[p], "create_user") = 0
                     /\ pending[p] = <<>>
                     /\ ret[p] = NoRet
                /\ raised[p].kind # "UsernameAlreadyExists" /\ Len(trace[p]) >= 2 =>
                     SubSeq(trace[p], 1, 2) = <<"get_by_username", "get_by_email">>)
    /\ [][\A p \in Procs :
            RegisterRan(p) /\ raised[p] # NoExc => store' = store]_vars

\* A Register with a username already in use and a weak password was refused for
\* the username.
C23_Witness ==
    \E p \in Procs :
        /\ RegisterRan(p) /\ pc[p] = "done"
        /\ UsernameHeld(p)
        /\ Password(req[p].password) # NoExc
        /\ outExc[p] = Exc("UsernameAlreadyExists")

\* The rows p's scope wrote and has not committed: the objects it added, and the
\* objects it loaded and changed.
Uncommitted(p) ==
    {pending[p][i] : i \in 1..Len(pending[p])}
    \cup {e.cur : e \in {e \in imap[p] : e.cur # e.orig}}

\* A use case of p has run to its end inside a scope that is still open.
RanInScope(p, ops) == pc[p] = "exit" /\ req[p].op \in ops

\* C24: inside one scope a lookup sees what the scope wrote and has not committed.
\* GetUser, Disable and Enable of an account written in the scope answer from the
\* written state; a Register whose username or email an account written in the
\* scope holds fails with UsernameAlreadyExists or EmailAlreadyExists; and the
\* commit persists the rows as last written.
C24_ReadYourWrites ==
    /\ \A p \in Procs : \A a \in Uncommitted(p) :
         /\ RanInScope(p, {"get"}) /\ a.id = req[p].id =>
              IF a.disabled THEN exc[p] = Exc("UserDisabled")
              ELSE exc[p] = NoExc /\ SameAccount(ret[p].user, a, {})
         /\ RanInScope(p, {"disable", "enable"}) /\ a.id = req[p].id =>
              /\ exc[p] = NoExc
              /\ a.disabled = (req[p].op = "disable")
              /\ SameAccount(ret[p].user, a, {})
         /\ RanInScope(p, {"register"}) /\ a.id # user[p].id =>
              /\ a.username = req[p].username => exc[p] = Exc("UsernameAlreadyExists")
              /\ a.email = req[p].email =>
                   exc[p].kind \in {"UsernameAlreadyExists", "EmailAlreadyExists"}
    /\ \A p \in Procs :
         RanInScope(p, {"get", "disable", "enable"}) /\ exc[p] = Exc("UserNotFound") =>
             \A a \in Uncommitted(p) \cup store : a.id # req[p].id
    /\ \A p \in Procs : \A a \in Uncommitted(p) :
         pc[p] = "close" /\ tx[p] = "committed" =>
             \E r \in store : SameAccount(a, r, {})

\* A scope registered an account, ran three more use cases and then a second
\* Register with the same username and another email, which was refused although
\* no account is committed.
C24_Witness ==
    \E p \in Procs : \E a \in Uncommitted(p) :
        /\ RanInScope(p, {"register"})
        /\ Count(trace[p], "next") = MaxChain
        /\ store = {}
        /\ a.username = req[p].username
        /\ a.email # req[p].email
        /\ ~a.disabled
        /\ exc[p] = Exc("UsernameAlreadyExists")

\* The step is a call of a transition of p's entity; it returned in the state
\* the step leads to when exc is NoExc there.
EntityCalled(p) == pc[p] = "entity" /\ trace'[p] # trace[p]

\* C25: every transition of the entity that returns sets updated_at to the time
\* of the call, also when no other field changes; a call that raises leaves it;
\* so updated_at never decreases and is never earlier than created_at.
C25_UpdatedAtTouched ==
    /\ [][\A p \in Procs :
            EntityCalled(p) =>
                /\ exc'[p] = NoExc => user'[p].updated_at = now
                /\ exc'[p] # NoExc => user'[p].updated_at = user[p].updated_at]_vars
    /\ [][\A p \in Procs : user'[p].updated_at >= user[p].updated_at]_vars
    /\ [](\A p \in Procs : user[p].updated_at >= user[p].created_at)

\* enable was called on an entity that was enabled, at a later time than its last
\* change: only updated_at changed.
C25_Witness ==
    \E p \in Procs :
        /\ pc[p] = "entity" /\ req[p].op = "enable"
        /\ ~ret[p].user.disabled
        /\ now > ret[p].user.updated_at
        /\ user[p] = [ret[p].user EXCEPT !.updated_at = now]

\* The step is one of a use case, or a call of a caller, that holds an entity
\* before and after it.
HoldsEntity(p) ==
    /\ user[p] # NoUser /\ user'[p] # NoUser
    /\ req'[p] = req[p] \/ pc[p] = "entity"

\* The step is the one in which Disable or Enable reads the account and applies
\* disable() or enable() to it.
AccessApplied(p) == pc[p] \in {"disable", "enable"} /\ pc'[p] = "update_user"

\* C26: no transition (set_password, change_username, change_email, enable,
\* disable, mark_email_as_verified, called on an entity in memory) and no use case
\* changes the id or created_at of the entity it holds; Disable and Enable hold
\* the entity with the id and created_at of the row they read; update_user leaves
\* id and created_at of the session's object as they were read; and every
\* committed row stays in the store with the id and created_at it has, one row
\* for an id.
C26_IdAndCreatedAtKept ==
    /\ [][\A p \in Procs :
            HoldsEntity(p) =>
                /\ user'[p].id = user[p].id
                /\ user'[p].created_at = user[p].created_at]_vars
    /\ [][\A p \in Procs : \A r \in Target(p) :
            AccessApplied(p) =>
                /\ user'[p].id = r.id
                /\ user'[p].created_at = r.created_at]_vars
    /\ [](\A p \in Procs : \A e \in imap[p] :
            e.cur.id = e.orig.id /\ e.cur.created_at = e.orig.created_at)
    /\ [][\A r \in store : \E r2 \in store' :
            r2.id = r.id /\ r2.created_at = r.created_at]_vars
    /\ [](\A r1, r2 \in store : r1.id = r2.id => r1 = r2)

\* An account registered at time 0 was renamed and disabled later: its row carries
\* the new username, the later updated_at and the created_at of its registration.
C26_Witness ==
    \E r \in store :
        /\ r.username = bobby /\ r.disabled
        /\ r.created_at = 0 /\ r.updated_at > r.created_at
        /\ \E r2 \in store : r2.id # r.id /\ r2.created_at > 0

\* The hash is one get_password_hash returns for a password that Password accepts.
HashOfValidated(h) == h.scheme # "" /\ h.digest # <<>> /\ Password(h.digest) = NoExc

\* C27: every committed row, every row a session added and every object a session
\* changed carries the hash of a validated password, never the empty hash; and
\* set_password with the empty hash raises ValueError and leaves the entity as it
\* was, for every committed account.
C27_HashNeverEmpty ==
    /\ \A r \in store : HashOfValidated(r.hashed_password)
    /\ \A p \in Procs :
         /\ \A i \in 1..Len(pending[p]) : HashOfValidated(pending[p][i].hashed_password)
         /\ \A e \in imap[p] : HashOfValidated(e.cur.hashed_password)
    /\ \A r \in store :
         set_password(to_domain(r).user, NoHash, now)
             = Res(Exc("ValueError"), to_domain(r).user)

\* Two accounts are committed; one had its password replaced by UpdateProfile and
\* was disabled afterwards, the other was changed at a later time and still has
\* the hash Register gave it.
C27_Witness ==
    \E r1, r2 \in store :
        /\ r1.id # r2.id
        /\ r1.hashed_password = get_password_hash(Secret99) /\ r1.disabled
        /\ r2.hashed_password = get_password_hash(Passw0rd) /\ ~r2.disabled
        /\ r2.updated_at > r2.created_at

\* The account with the username of p's login is disabled.
DisabledAccount(p) == \E r \in store : r.username = req[p].username /\ r.disabled

\* C28: Authenticate against a disabled account with a non-matching password
\* raises InvalidCredentials, not UserDisabled; UserDisabled is raised only to a
\* login that presents the password of a disabled account.
C28_PasswordBeforeStatus ==
    \A p \in Procs :
        LoginRan(p) =>
            /\ DisabledAccount(p) /\ WrongPassword(p) =>
                 exc[p].kind = "InvalidCredentials" /\ exc[p].kind # "UserDisabled"
            /\ exc[p].kind = "UserDisabled" =>
                 \E r \in store :
                     /\ r.username = req[p].username /\ r.disabled
                     /\ r.hashed_password = get_password_hash(req[p].password)

\* A login at a disabled account with a password that meets the password rule and
\* is not the account's was refused with InvalidCredentials.
C28_Witness ==
    \E p \in Procs :
        /\ LoginRan(p) /\ pc[p] = "done"
        /\ DisabledAccount(p) /\ WrongPassword(p)
        /\ req[p].password = Secret99
        /\ outExc[p].kind = "InvalidCredentials"

\* p's UpdateProfile raised one of the errors of steps 3 and 4 while the entity it
\* holds already differs from the committed row in username or email.
FailedAfterChange(p) ==
    /\ req[p].op = "update"
    /\ pc[p] \in {"exit", "close", "done"}
    /\ raised[p].kind \in {"EmailAlreadyExists", "InvalidEmailFormat", "InvalidPasswordFormat"}
    /\ \E r \in store :
         r.id = user[p].id /\ (r.username # user[p].username \/ r.email # user[p].email)

\* C29: an UpdateProfile that fails after it changed the username or the email of
\* the entity never called update_user and changed no object of its session; its
\* scope rolls back and does not commit; and no step of an UpdateProfile other
\* than a commit changes the store, so the committed row stays as it was.
C29_FailedUpdateLeavesNothing ==
    /\ [](\A p \in Procs :
            FailedAfterChange(p) =>
                /\ Count(trace[p], "update_user") = 0
                /\ \A e \in imap[p] : e.cur = e.orig
                /\ Count(trace[p], "commit") = 0
                /\ pc[p] = "done" => Count(trace[p], "rollback") = 1 /\ outExc[p] = raised[p])
    /\ [][\A p \in Procs :
            req[p].op = "update" /\ req'[p] = req[p] /\ Count(trace'[p], "commit") = 0 =>
                store' = store]_vars

\* The username of an account was changed in memory, the email asked for belongs
\* to another account, and the scope has rolled back: the row has the old username.
C29_Witness ==
    \E p \in Procs : \E r \in store :
        /\ FailedAfterChange(p) /\ pc[p] = "done"
        /\ raised[p].kind = "EmailAlreadyExists"
        /\ r.id = req[p].id /\ r.username = alice /\ user[p].username = bobby
        /\ req[p].new_password = weak

\* The request of p went through get_verified_user and its dependency returned
\* or raised (no cancellation, no database failure).
GateRan(p) ==
    /\ req[p].op \in {"me_verified", "api_update"}
    /\ pc[p] \in {"exit", "close", "done"}
    /\ raised[p].kind \notin FaultKinds

\* C30: with no operation that confirms an email, no committed row, no row or
\* object of a session and no entity a request holds has is_email_verified set;
\* get_verified_user raises EmailNotVerified for every account that passes
\* get_current_user; and the update endpoint never enters UpdateUserUseCase: it
\* returns nothing, calls update_user never and reaches none of its lookups.
C30_NeverVerified ==
    /\ \A r \in store : ~r.is_email_verified
    /\ \A p \in Procs :
         /\ \A i \in 1..Len(pending[p]) : ~pending[p][i].is_email_verified
         /\ \A e \in imap[p] : ~e.cur.is_email_verified
         /\ user[p] # NoUser => ~user[p].is_email_verified
         /\ pc[p] \notin {"upd_verify", "upd_username", "upd_email"}
         /\ GateRan(p) =>
              /\ exc[p].kind \in {"InvalidToken", "AuthUserNotFound", "UserDisabled",
                                  "EmailNotVerified"}
              /\ user[p] # NoUser /\ ~user[p].disabled => exc[p].kind = "EmailNotVerified"
              /\ ret[p] = NoRet
              /\ Count(trace[p], "update_user") = 0
              /\ Count(trace[p], "commit") = 0

\* The update endpoint was called with the token and the password of an enabled
\* account and a new username: it was refused with EmailNotVerified and the row
\* has the username it had.
C30_Witness ==
    \E p \in Procs : \E r \in store :
        /\ GateRan(p) /\ pc[p] = "done"
        /\ req[p].op = "api_update" /\ req[p].username = bobby
        /\ req[p].token = TokenFor(r.id)
        /\ r.username = alice /\ ~r.disabled
        /\ r.hashed_password = get_password_hash(req[p].password)
        /\ outExc[p].kind = "EmailNotVerified"

====
